---------------------------- MODULE Spec2Model ----------------------------
(***************************************************************************)
(* Learning-rate schedulers of learning_rates.py.                          *)
(*                                                                         *)
(* Each scheduler is a dataclass (its generated __init__ stores the        *)
(* fields, nothing more) with a __call__(iteration) that returns a rate.   *)
(*                                                                         *)
(* Numbers.  A Python int is an integer.  A Python float is an IEEE 754    *)
(* binary64 value, and every float operation rounds its exact result to    *)
(* the nearest such value, ties to even.  A value s * m * 2^e is a record  *)
(* [s, m, e]: s is the sign (-1, 0, 1), e the exponent, and m the          *)
(* magnitude, a natural number written as a sequence of limbs in base      *)
(* 2^15, least significant first (a machine integer of the model checker   *)
(* cannot hold 53 bits).  A double is such a record with m of exactly 53   *)
(* bits, or a subnormal with fewer bits and e = -1074, or zero,            *)
(* [0, <<>>, 0].                                                           *)
(*                                                                         *)
(* math.cos and ** go to the C library, whose results are not always the   *)
(* nearest double and differ between libraries.  They are modelled as the  *)
(* cos and pow of glibc 2.36 for x86-64 with fused multiply-add, step by   *)
(* step with the library's tables; another library or processor may give   *)
(* a neighbouring double.                                                  *)
(*                                                                         *)
(* Not modelled: the sign of zero (-0.0 and 0.0 compare equal), NaN,       *)
(* infinities (+, -, * and / are taken not to overflow; an overflow of **  *)
(* is the OverflowError Python raises), math.cos of 105414336 or more, and *)
(* a negative float to a power that is not an int (a complex number).      *)
(***************************************************************************)
EXTENDS Integers, Sequences, FiniteSets

VARIABLES
    cls,        \* class of the constructed scheduler, "none" before construction
    self,       \* the instance's fields
    pc,         \* "idle", or inside CosineAnnealingWarmRestarts.__call__: "loop" at
                \* the while condition, "body" in the loop body
    arg,        \* the iteration the last call was made with
    iteration,  \* local of CosineAnnealingWarmRestarts.__call__ (the parameter, reassigned)
    T_i,        \* local of CosineAnnealingWarmRestarts.__call__
    T_cur,      \* local of CosineAnnealingWarmRestarts.__call__
    result,     \* outcome of the last completed call
    built,      \* history: the fields as __init__ stored them
    again       \* history: the last call was made after an earlier call completed

vars == <<cls, self, pc, arg, iteration, T_i, T_cur, result, built, again>>

---------------------------------------------------------------------------
(* Bounds of the model. *)

MaxIteration == 7
MaxIters == 3
MaxTMult == 2
MaxMilestones == 2
MaxMilestone == 2

Iterations == 0..MaxIteration

---------------------------------------------------------------------------
(* Natural numbers of any size, as limbs.  These are functions, so that an *)
(* argument is evaluated once.                                             *)

Base == 32768
LimbBits == 15

Limbs == Seq(Nat)

\* the number of bits of n
Bits[n \in Nat] == IF n = 0 THEN 0 ELSE 1 + Bits[n \div 2]

Pow2[n \in Nat] == IF n = 0 THEN 1 ELSE 2 * Pow2[n - 1]

\* a without its leading zero limbs
Trim[a \in Limbs] ==
    IF a = <<>> THEN a
    ELSE IF a[Len(a)] = 0 THEN Trim[SubSeq(a, 1, Len(a) - 1)] ELSE a

BOfInt[n \in Nat] == IF n = 0 THEN <<>> ELSE <<n % Base>> \o BOfInt[n \div Base]

BToInt[a \in Limbs] == IF a = <<>> THEN 0 ELSE a[1] + Base * BToInt[Tail(a)]

BitLen[a \in Limbs] ==
    IF a = <<>> THEN 0 ELSE LimbBits * (Len(a) - 1) + Bits[a[Len(a)]]

\* a + b + c
BAddC[a \in Limbs, b \in Limbs, c \in Nat] ==
    IF a = <<>> /\ b = <<>> THEN (IF c = 0 THEN <<>> ELSE <<c>>)
    ELSE LET x == (IF a = <<>> THEN 0 ELSE a[1]) + (IF b = <<>> THEN 0 ELSE b[1]) + c
         IN  <<x % Base>> \o BAddC[IF a = <<>> THEN a ELSE Tail(a),
                                   IF b = <<>> THEN b ELSE Tail(b), x \div Base]

BAdd[a \in Limbs, b \in Limbs] == BAddC[a, b, 0]

\* a - b - c for a >= b + c, leading zeros kept
BSubC[a \in Limbs, b \in Limbs, c \in Nat] ==
    IF a = <<>> THEN <<>>
    ELSE LET x == a[1] - (IF b = <<>> THEN 0 ELSE b[1]) - c
         IN  <<x % Base>> \o BSubC[Tail(a), IF b = <<>> THEN b ELSE Tail(b),
                                   IF x < 0 THEN 1 ELSE 0]

BSub[a \in Limbs, b \in Limbs] == Trim[BSubC[a, b, 0]]

BCmpAt[a \in Limbs, b \in Limbs, i \in Nat] ==
    IF i = 0 THEN 0
    ELSE IF a[i] < b[i] THEN -1
    ELSE IF a[i] > b[i] THEN 1
    ELSE BCmpAt[a, b, i - 1]

\* -1, 0, 1 as a < b, a = b, a > b
BCmp[a \in Limbs, b \in Limbs] ==
    IF Len(a) < Len(b) THEN -1
    ELSE IF Len(a) > Len(b) THEN 1
    ELSE BCmpAt[a, b, Len(a)]

\* a * k + c for a limb k >= 1
BMulS[a \in Limbs, k \in Nat, c \in Nat] ==
    IF a = <<>> THEN (IF c = 0 THEN <<>> ELSE <<c>>)
    ELSE LET x == a[1] * k + c
         IN  <<x % Base>> \o BMulS[Tail(a), k, x \div Base]

\* a * Base
BShiftLimb[a \in Limbs] == IF a = <<>> THEN a ELSE <<0>> \o a

BMul[a \in Limbs, b \in Limbs] ==
    IF a = <<>> \/ b = <<>> THEN <<>>
    ELSE IF b[1] = 0 THEN BShiftLimb[BMul[a, Tail(b)]]
    ELSE BAdd[BMulS[a, b[1], 0], BShiftLimb[BMul[a, Tail(b)]]]

\* quotient (leading zeros kept) of r * Base^Len(a) + a by a limb k > r
BDivS[a \in Limbs, k \in Nat, r \in Nat] ==
    IF a = <<>> THEN <<>>
    ELSE Append(BDivS[SubSeq(a, 1, Len(a) - 1), k, (r * Base + a[Len(a)]) % k],
                (r * Base + a[Len(a)]) \div k)

\* a * 2^n
BShl[a \in Limbs, n \in Nat] ==
    IF a = <<>> THEN a
    ELSE BMulS[[i \in 1..(n \div LimbBits) |-> 0] \o a, Pow2[n % LimbBits], 0]

\* a \div 2^n
BShr[a \in Limbs, n \in Nat] ==
    IF n \div LimbBits >= Len(a) THEN <<>>
    ELSE Trim[BDivS[SubSeq(a, n \div LimbBits + 1, Len(a)), Pow2[n % LimbBits], 0]]

\* the largest q <= qhat with q * b <= cur
BQFix[b \in Limbs, cur \in Limbs, qhat \in Nat] ==
    IF qhat = 0 THEN 0
    ELSE IF BCmp[BMulS[b, qhat, 0], cur] > 0 THEN BQFix[b, cur, qhat - 1] ELSE qhat

\* the quotient of the top limbs of cur by the top limb of b
BTop[b \in Limbs, cur \in Limbs] ==
    ((IF Len(cur) > Len(b) THEN cur[Len(b) + 1] ELSE 0) * Base
       + (IF Len(cur) >= Len(b) THEN cur[Len(b)] ELSE 0)) \div b[Len(b)]

\* the digit of the long division: the quotient of cur by b, for cur < b * Base
\* and the top limb of b at least Base / 2, where BTop is at most 2 above it
BDigit[b \in Limbs, cur \in Limbs] ==
    BQFix[b, cur, IF BTop[b, cur] > Base - 1 THEN Base - 1 ELSE BTop[b, cur]]

\* cur - d * b
BRest[b \in Limbs, cur \in Limbs, d \in Nat] ==
    IF d = 0 THEN cur ELSE BSub[cur, BMulS[b, d, 0]]

\* long division of rem * Base^Len(a) + a by b, for rem < b and the top limb
\* of b at least Base / 2: the quotient, leading zeros kept.  cur is
\* rem * Base plus the top limb of a, d its digit.
BLongDivAt[a \in Limbs, b \in Limbs, cur \in Limbs, d \in Nat] ==
    Append(IF Len(a) = 1 THEN <<>>
           ELSE BLongDivAt[SubSeq(a, 1, Len(a) - 1), b,
                           Trim[<<a[Len(a) - 1]>> \o BRest[b, cur, d]],
                           BDigit[b, Trim[<<a[Len(a) - 1]>> \o BRest[b, cur, d]]]],
           d)

BLongDiv[a \in Limbs, b \in Limbs] ==
    IF a = <<>> THEN <<>>
    ELSE BLongDivAt[a, b, Trim[<<a[Len(a)]>>], BDigit[b, Trim[<<a[Len(a)]>>]]]

\* a \div b for b # 0: both are scaled to bring the top limb of b to Base / 2
BDiv[a \in Limbs, b \in Limbs] ==
    Trim[BLongDiv[BShl[a, LimbBits - Bits[b[Len(b)]]],
                  BShl[b, LimbBits - Bits[b[Len(b)]]]]]

---------------------------------------------------------------------------
(* The numbers s * m * 2^e and their exact arithmetic.                     *)

Signs == {-1, 0, 1}

Dyadics == [s : Signs, m : Limbs, e : Int]

Zero == [s |-> 0, m |-> <<>>, e |-> 0]

XOfInt[n \in Int] ==
    IF n = 0 THEN Zero
    ELSE IF n < 0 THEN [s |-> -1, m |-> BOfInt[-n], e |-> 0]
    ELSE [s |-> 1, m |-> BOfInt[n], e |-> 0]

XNeg[x \in Dyadics] == [x EXCEPT !.s = -x.s]

XAbs[x \in Dyadics] == [x EXCEPT !.s = x.s * x.s]

\* sx * mx * 2^e + sy * my * 2^e, for sx, sy # 0
XAddAligned[sx \in Signs, mx \in Limbs, sy \in Signs, my \in Limbs, e \in Int] ==
    IF sx = sy THEN [s |-> sx, m |-> BAdd[mx, my], e |-> e]
    ELSE IF BCmp[mx, my] = 0 THEN Zero
    ELSE IF BCmp[mx, my] > 0 THEN [s |-> sx, m |-> BSub[mx, my], e |-> e]
    ELSE [s |-> sy, m |-> BSub[my, mx], e |-> e]

XAdd[x \in Dyadics, y \in Dyadics] ==
    IF x.s = 0 THEN y
    ELSE IF y.s = 0 THEN x
    ELSE IF x.e < y.e
    THEN XAddAligned[x.s, x.m, y.s, BShl[y.m, y.e - x.e], x.e]
    ELSE XAddAligned[x.s, BShl[x.m, x.e - y.e], y.s, y.m, y.e]

XSub[x \in Dyadics, y \in Dyadics] == XAdd[x, XNeg[y]]

XMul[x \in Dyadics, y \in Dyadics] ==
    IF x.s = 0 \/ y.s = 0 THEN Zero
    ELSE [s |-> x.s * y.s, m |-> BMul[x.m, y.m], e |-> x.e + y.e]

\* <= and < of Python, on ints and floats alike
Leq[x \in Dyadics, y \in Dyadics] == XSub[x, y].s <= 0
Less[x \in Dyadics, y \in Dyadics] == XSub[x, y].s < 0

---------------------------------------------------------------------------
(* Doubles, and the float operations: the exact result, rounded.           *)

MantBits == 53

\* the exponent of the last bit of the smallest doubles, the subnormal ones
MinExp == -1074

\* 2^n
P2[n \in Int] == [s |-> 1, m |-> <<1>>, e |-> n]

\* s * q * 2^e for q of at most 54 bits, as a double
Carried[s \in Signs, q \in Limbs, e \in Int] ==
    IF q = <<>> THEN Zero
    ELSE IF BitLen[q] > MantBits
    THEN [s |-> s, m |-> BShr[q, 1], e |-> e + 1]
    ELSE [s |-> s, m |-> q, e |-> e]

\* s * q * 2^e for q of at most 53 bits, rounded up or not to the nearest
\* double, ties to even: c is -1, 0, 1 as the bits dropped from q are below, at,
\* above half a unit of q
Nearest[s \in Signs, q \in Limbs, e \in Int, c \in Int, sticky \in BOOLEAN] ==
    IF c > 0 \/ (c = 0 /\ (sticky \/ (q # <<>> /\ q[1] % 2 = 1)))
    THEN Carried[s, BAdd[q, <<1>>], e]
    ELSE Carried[s, q, e]

\* the bits of m below bit sh, against half a unit of q = m \div 2^sh
DroppedBits[m \in Limbs, q \in Limbs, sh \in Nat] ==
    BCmp[BSub[m, BShl[q, sh]], BShl[<<1>>, sh - 1]]

\* the exponent of the last bit of the doubles around m * 2^e: that of the bit
\* 52 places below the first bit of m, or MinExp where that is lower
LastBit[m \in Limbs, e \in Int] ==
    IF e + BitLen[m] - MantBits > MinExp THEN e + BitLen[m] - MantBits ELSE MinExp

\* x rounded to the multiples of 2^t
RoundAt[x \in Dyadics, sticky \in BOOLEAN, t \in Int] ==
    IF t <= x.e THEN [s |-> x.s, m |-> BShl[x.m, x.e - t], e |-> t]
    ELSE Nearest[x.s, BShr[x.m, t - x.e], t,
                 DroppedBits[x.m, BShr[x.m, t - x.e], t - x.e], sticky]

\* x, plus a positive amount below one unit of x.m if sticky, rounded to the
\* nearest double, ties to even
Round[x \in Dyadics, sticky \in BOOLEAN] ==
    IF x.m = <<>> THEN Zero ELSE RoundAt[x, sticky, LastBit[x.m, x.e]]

\* a double x # 0 with its magnitude written in 53 bits, which for a subnormal x
\* takes an exponent below MinExp
Normal[x \in Dyadics] ==
    [s |-> x.s, m |-> BShl[x.m, MantBits - BitLen[x.m]],
     e |-> x.e - (MantBits - BitLen[x.m])]

\* float(n), the conversion of an int operand of a float operation
FromInt[n \in Int] == Round[XOfInt[n], FALSE]

FAdd[x \in Dyadics, y \in Dyadics] == Round[XAdd[x, y], FALSE]
FSub[x \in Dyadics, y \in Dyadics] == Round[XSub[x, y], FALSE]
FMul[x \in Dyadics, y \in Dyadics] == Round[XMul[x, y], FALSE]

\* the fused multiply-add of the processor: x * y + z, rounded once
FMA[x \in Dyadics, y \in Dyadics, z \in Dyadics] == Round[XAdd[XMul[x, y], z], FALSE]

\* x / y for doubles x # 0 and y # 0 with magnitudes of 53 bits: the quotient of
\* the magnitudes to 55 or 56 bits, rounded
FDivAt[x \in Dyadics, y \in Dyadics, num \in Limbs, q \in Limbs] ==
    Round[[s |-> x.s * y.s, m |-> q, e |-> x.e - y.e - (MantBits + 2)],
          BMul[q, y.m] # num]

FDivNormal[x \in Dyadics, y \in Dyadics] ==
    FDivAt[x, y, BShl[x.m, MantBits + 2], BDiv[BShl[x.m, MantBits + 2], y.m]]

\* x / y for doubles x and y # 0 (the callers raise ZeroDivisionError before
\* dividing by 0)
FDiv[x \in Dyadics, y \in Dyadics] ==
    IF x.s = 0 THEN Zero ELSE FDivNormal[Normal[x], Normal[y]]

\* abs
FAbs[x \in Dyadics] == XAbs[x]

\* math.floor
FFloor[x \in Dyadics] ==
    IF x.s = 0 THEN 0
    ELSE IF x.e >= 0 THEN x.s * BToInt[BShl[x.m, x.e]]
    ELSE IF x.s > 0 THEN BToInt[BShr[x.m, -x.e]]
    ELSE IF BShl[BShr[x.m, -x.e], -x.e] = x.m THEN -BToInt[BShr[x.m, -x.e]]
    ELSE -BToInt[BShr[x.m, -x.e]] - 1

\* max(0, x): x when x > 0, else the 0
Max0[x \in Dyadics] == IF Less[Zero, x] THEN x ELSE Zero

\* the float literal n/d, and the int / int of Python: both are the double
\* nearest to n/d
F[n \in Int, d \in Int] == FDiv[FromInt[n], FromInt[d]]

One == FromInt[1]
Two == FromInt[2]
Half == F[1, 2]

\* math.pi = 0x1.921fb54442d18p+1
Pi == [s |-> 1, m |-> <<11544, 10376, 2029, 201>>, e |-> -51]


---------------------------------------------------------------------------
(* Outcomes of a call.                                                     *)

Return(v) == [kind |-> "return", value |-> v, exc |-> "none"]
Raise(e) == [kind |-> "raise", value |-> Zero, exc |-> e]
NoResult == [kind |-> "none", value |-> Zero, exc |-> "none"]

Outcomes == [kind : {"return", "raise", "none"}, value : Dyadics, exc : STRING]

---------------------------------------------------------------------------
(* math.cos is the cos of the C library, here that of glibc 2.36 for       *)
(* x86-64 processors with fused multiply-add.  It is within one unit in    *)
(* the last place of the cosine, not always the nearest double, so its     *)
(* steps are followed one by one, each with its own rounding: the table    *)
(* functions do_cos and do_sin, the polynomial for small arguments and the *)
(* reduction by multiples of pi/2.  The constants and the table are the    *)
(* library's, each double written as the record of its value.              *)

\* the constants of the library's cos: pi/2 in the parts hp0 + hp1 and mp1 + mp2
\* + pp3 + pp4, 2/pi, the numbers big and toint that round by being added, the
\* coefficients of the polynomials, and the bounds of the ranges of |x|
CosData == [
    \* 0x1.921fb54442d18p+0
    hp0 |-> [s |-> 1, m |-> <<11544, 10376, 2029, 201>>, e |-> -52],
    \* 0x1.1a62633145c07p-54
    hp1 |-> [s |-> 1, m |-> <<23559, 26152, 6296, 141>>, e |-> -106],
    \* 0x1.45f306dc9c883p-1
    hpinv |-> [s |-> 1, m |-> <<18563, 23443, 31937, 162>>, e |-> -53],
    \* 0x1.8000000000000p+52
    toint |-> [s |-> 1, m |-> <<0, 0, 0, 192>>, e |-> 0],
    \* 0x1.921fb58000000p+0
    mp1 |-> [s |-> 1, m |-> <<0, 12288, 2029, 201>>, e |-> -52],
    \* -0x1.dde973c000000p-27
    mp2 |-> [s |-> -1, m |-> <<0, 30720, 31324, 238>>, e |-> -79],
    \* -0x1.cb3b398000000p-55
    pp3 |-> [s |-> -1, m |-> <<0, 12288, 20174, 229>>, e |-> -107],
    \* -0x1.d747f23e32ed7p-83
    pp4 |-> [s |-> -1, m |-> <<11991, 18374, 20988, 235>>, e |-> -135],
    \* 0x1.8000000000000p+45
    big |-> [s |-> 1, m |-> <<0, 0, 0, 192>>, e |-> -7],
    \* -0x1.5555555555515p-3
    sn3 |-> [s |-> -1, m |-> <<21781, 10922, 21845, 170>>, e |-> -55],
    \* 0x1.11110e829872fp-7
    sn5 |-> [s |-> 1, m |-> <<1839, 20563, 17475, 136>>, e |-> -59],
    \* 0x1.0000000000000p-1
    cs2 |-> [s |-> 1, m |-> <<0, 0, 0, 128>>, e |-> -53],
    \* -0x1.5555555555535p-5
    cs4 |-> [s |-> -1, m |-> <<21813, 10922, 21845, 170>>, e |-> -57],
    \* 0x1.6c16bedd9e239p-10
    cs6 |-> [s |-> 1, m |-> <<25145, 23475, 1455, 182>>, e |-> -62],
    \* -0x1.5555555555555p-3
    s1 |-> [s |-> -1, m |-> <<21845, 10922, 21845, 170>>, e |-> -55],
    \* 0x1.1111111110ecep-7
    s2 |-> [s |-> 1, m |-> <<3790, 8738, 17476, 136>>, e |-> -59],
    \* -0x1.a01a019db08b8p-13
    s3 |-> [s |-> -1, m |-> <<2232, 13238, 1664, 208>>, e |-> -65],
    \* 0x1.71de27b9a7ed9p-19
    s4 |-> [s |-> 1, m |-> <<32473, 30516, 30601, 184>>, e |-> -71],
    \* -0x1.addffc2fcdf59p-26
    s5 |-> [s |-> -1, m |-> <<24409, 1529, 30719, 214>>, e |-> -78],
    \* 0x1.0000000000000p-27, below which cos is 1
    tiny |-> [s |-> 1, m |-> <<0, 0, 0, 128>>, e |-> -79],
    \* 0x1.b600000000000p-1, below which the table is used directly
    table |-> [s |-> 1, m |-> <<0, 0, 0, 219>>, e |-> -53],
    \* 0x1.368fd00000000p+1, below which pi/2 - |x| is used
    halfpi |-> [s |-> 1, m |-> <<0, 0, 9204, 155>>, e |-> -51],
    \* 0x1.921fb00000000p+26, below which the argument is reduced by multiples of pi/2
    reduce |-> [s |-> 1, m |-> <<0, 0, 2028, 201>>, e |-> -26],
    \* 0x1.020c49ba5e354p-3, below which do_sin sums a polynomial
    taylor |-> [s |-> 1, m |-> <<25428, 14155, 786, 129>>, e |-> -55]]

\* the table of sin and cos at the multiples k/128 of 1/128, k = 0..109: four
\* doubles a row, sin(k/128) in two parts (sn + ssn), then cos(k/128) in two
\* parts (cs + ccs)
SinCosTab == <<
    [s |-> 0, m |-> <<>>, e |-> 0],
    [s |-> 0, m |-> <<>>, e |-> 0],
    [s |-> 1, m |-> <<0, 0, 0, 128>>, e |-> -52],
    [s |-> 0, m |-> <<>>, e |-> 0],
    [s |-> 1, m |-> <<28399, 21853, 32682, 255>>, e |-> -60],
    [s |-> -1, m |-> <<14204, 22735, 6027, 242>>, e |-> -114],
    [s |-> 1, m |-> <<21842, 42, 32512, 255>>, e |-> -53],
    [s |-> 1, m |-> <<28078, 16434, 10246, 250>>, e |-> -107],
    [s |-> 1, m |-> <<28373, 21981, 32426, 255>>, e |-> -59],
    [s |-> -1, m |-> <<1911, 13630, 11662, 149>>, e |-> -115],
    [s |-> 1, m |-> <<21663, 682, 31744, 255>>, e |-> -53],
    [s |-> 1, m |-> <<24307, 16500, 10402, 148>>, e |-> -107],
    [s |-> 1, m |-> <<12885, 518, 32192, 191>>, e |-> -58],
    [s |-> 1, m |-> <<29494, 8868, 30893, 247>>, e |-> -116],
    [s |-> 1, m |-> <<30694, 3455, 30464, 255>>, e |-> -53],
    [s |-> 1, m |-> <<30653, 20690, 7019, 215>>, e |-> -107],
    [s |-> 1, m |-> <<26735, 24029, 31402, 255>>, e |-> -58],
    [s |-> -1, m |-> <<19170, 30276, 20507, 230>>, e |-> -112],
    [s |-> 1, m |-> <<10195, 10922, 28672, 255>>, e |-> -53],
    [s |-> -1, m |-> <<7003, 9649, 21778, 157>>, e |-> -107],
    [s |-> 1, m |-> <<17877, 25178, 31434, 159>>, e |-> -57],
    [s |-> 1, m |-> <<7185, 16506, 12624, 167>>, e |-> -112],
    [s |-> 1, m |-> <<10170, 26665, 26368, 255>>, e |-> -53],
    [s |-> 1, m |-> <<22975, 31960, 18386, 204>>, e |-> -109],
    [s |-> 1, m |-> <<31657, 8293, 30464, 191>>, e |-> -57],
    [s |-> -1, m |-> <<6522, 26845, 26359, 172>>, e |-> -111],
    [s |-> 1, m |-> <<31135, 22523, 23553, 255>>, e |-> -53],
    [s |-> -1, m |-> <<3423, 16585, 20181, 197>>, e |-> -108],
    [s |-> 1, m |-> <<28076, 28848, 29109, 223>>, e |-> -57],
    [s |-> 1, m |-> <<29238, 1975, 5108, 199>>, e |-> -114],
    [s |-> 1, m |-> <<14897, 4128, 20227, 255>>, e |-> -53],
    [s |-> 1, m |-> <<3686, 31672, 5558, 164>>, e |-> -108],
    [s |-> 1, m |-> <<20187, 24026, 27307, 255>>, e |-> -57],
    [s |-> -1, m |-> <<19305, 25808, 17844, 150>>, e |-> -111],
    [s |-> 1, m |-> <<29907, 10899, 16389, 255>>, e |-> -53],
    [s |-> 1, m |-> <<17007, 30514, 8417, 153>>, e |-> -107],
    [s |-> 1, m |-> <<3055, 31489, 28880, 143>>, e |-> -56],
    [s |-> -1, m |-> <<15951, 19943, 29899, 249>>, e |-> -110],
    [s |-> 1, m |-> <<28575, 17745, 12040, 255>>, e |-> -53],
    [s |-> 1, m |-> <<19575, 27114, 19748, 188>>, e |-> -110],
    [s |-> 1, m |-> <<30043, 9634, 27436, 159>>, e |-> -56],
    [s |-> -1, m |-> <<18060, 9522, 1605, 201>>, e |-> -110],
    [s |-> 1, m |-> <<28527, 595, 7181, 255>>, e |-> -53],
    [s |-> -1, m |-> <<28567, 28562, 32012, 229>>, e |-> -109],
    [s |-> 1, m |-> <<14135, 31265, 25671, 175>>, e |-> -56],
    [s |-> -1, m |-> <<4354, 1405, 24892, 128>>, e |-> -110],
    [s |-> 1, m |-> <<29675, 1936, 1811, 255>>, e |-> -53],
    [s |-> -1, m |-> <<18946, 2808, 10020, 173>>, e |-> -112],
    [s |-> 1, m |-> <<20708, 1610, 23556, 191>>, e |-> -56],
    [s |-> 1, m |-> <<20506, 12288, 28852, 215>>, e |-> -112],
    [s |-> 1, m |-> <<27547, 32508, 28698, 254>>, e |-> -53],
    [s |-> 1, m |-> <<30939, 27243, 25610, 152>>, e |-> -107],
    [s |-> 1, m |-> <<20985, 23211, 21056, 207>>, e |-> -56],
    [s |-> 1, m |-> <<7617, 32088, 9653, 147>>, e |-> -110],
    [s |-> 1, m |-> <<24576, 5767, 22309, 254>>, e |-> -53],
    [s |-> -1, m |-> <<4857, 5791, 7587, 151>>, e |-> -109],
    [s |-> 1, m |-> <<14621, 2768, 18142, 223>>, e |-> -56],
    [s |-> 1, m |-> <<19656, 15316, 17936, 244>>, e |-> -110],
    [s |-> 1, m |-> <<6577, 29, 15410, 254>>, e |-> -53],
    [s |-> 1, m |-> <<1708, 3491, 3934, 245>>, e |-> -109],
    [s |-> 1, m |-> <<19686, 11651, 14780, 239>>, e |-> -56],
    [s |-> -1, m |-> <<5747, 24430, 15928, 168>>, e |-> -111],
    [s |-> 1, m |-> <<15496, 29091, 8001, 254>>, e |-> -53],
    [s |-> 1, m |-> <<13957, 2299, 22345, 131>>, e |-> -107],
    [s |-> 1, m |-> <<28214, 23821, 10939, 255>>, e |-> -56],
    [s |-> -1, m |-> <<28731, 31117, 29386, 215>>, e |-> -111],
    [s |-> 1, m |-> <<23507, 9466, 85, 254>>, e |-> -53],
    [s |-> 1, m |-> <<28600, 8489, 9165, 219>>, e |-> -107],
    [s |-> 1, m |-> <<29137, 7098, 19678, 135>>, e |-> -55],
    [s |-> 1, m |-> <<3998, 25758, 4513, 236>>, e |-> -109],
    [s |-> 1, m |-> <<1685, 22524, 24428, 253>>, e |-> -53],
    [s |-> 1, m |-> <<23217, 27116, 30391, 144>>, e |-> -107],
    [s |-> 1, m |-> <<20143, 12127, 17231, 143>>, e |-> -55],
    [s |-> -1, m |-> <<27045, 4910, 15956, 183>>, e |-> -109],
    [s |-> 1, m |-> <<19411, 19576, 15496, 253>>, e |-> -53],
    [s |-> -1, m |-> <<10089, 9844, 11064, 169>>, e |-> -110],
    [s |-> 1, m |-> <<14479, 15509, 14497, 151>>, e |-> -55],
    [s |-> -1, m |-> <<24664, 3005, 13372, 242>>, e |-> -109],
    [s |-> 1, m |-> <<14066, 18488, 6057, 253>>, e |-> -53],
    [s |-> 1, m |-> <<19580, 23087, 13979, 130>>, e |-> -111],
    [s |-> 1, m |-> <<26315, 22714, 11460, 159>>, e |-> -55],
    [s |-> 1, m |-> <<19345, 22221, 30105, 163>>, e |-> -109],
    [s |-> 1, m |-> <<17448, 5369, 28880, 252>>, e |-> -53],
    [s |-> 1, m |-> <<29794, 3190, 28076, 226>>, e |-> -107],
    [s |-> 1, m |-> <<29307, 7051, 8105, 167>>, e |-> -55],
    [s |-> 1, m |-> <<29436, 21888, 10092, 202>>, e |-> -110],
    [s |-> 1, m |-> <<19713, 110, 18429, 252>>, e |-> -53],
    [s |-> -1, m |-> <<7756, 6773, 16637, 190>>, e |-> -109],
    [s |-> 1, m |-> <<9971, 8002, 4415, 175>>, e |-> -55],
    [s |-> -1, m |-> <<2486, 3199, 20748, 183>>, e |-> -109],
    [s |-> 1, m |-> <<27894, 23613, 7472, 252>>, e |-> -53],
    [s |-> -1, m |-> <<11030, 16998, 5203, 227>>, e |-> -107],
    [s |-> 1, m |-> <<19788, 180, 375, 183>>, e |-> -55],
    [s |-> -1, m |-> <<18752, 5891, 12658, 153>>, e |-> -118],
    [s |-> 1, m |-> <<24100, 32255, 28779, 251>>, e |-> -53],
    [s |-> -1, m |-> <<16561, 2282, 21871, 199>>, e |-> -108],
    [s |-> 1, m |-> <<29365, 24437, 28736, 190>>, e |-> -55],
    [s |-> 1, m |-> <<6083, 17529, 11587, 173>>, e |-> -111],
    [s |-> 1, m |-> <<19996, 16189, 16815, 251>>, e |-> -53],
    [s |-> -1, m |-> <<23732, 6253, 25376, 180>>, e |-> -107],
    [s |-> 1, m |-> <<10564, 24053, 23948, 198>>, e |-> -55],
    [s |-> -1, m |-> <<14675, 17815, 16009, 144>>, e |-> -109],
    [s |-> 1, m |-> <<10957, 32112, 4347, 251>>, e |-> -53],
    [s |-> 1, m |-> <<10412, 1020, 16427, 181>>, e |-> -108],
    [s |-> 1, m |-> <<17170, 8605, 18763, 206>>, e |-> -55],
    [s |-> 1, m |-> <<4989, 354, 4342, 206>>, e |-> -110],
    [s |-> 1, m |-> <<26519, 6654, 24146, 250>>, e |-> -53],
    [s |-> 1, m |-> <<12757, 31751, 26676, 241>>, e |-> -109],
    [s |-> 1, m |-> <<1893, 21236, 13164, 214>>, e |-> -55],
    [s |-> -1, m |-> <<19947, 12205, 8429, 204>>, e |-> -110],
    [s |-> 1, m |-> <<14969, 31292, 10674, 250>>, e |-> -53],
    [s |-> 1, m |-> <<15191, 23389, 30659, 137>>, e |-> -107],
    [s |-> 1, m |-> <<24985, 7608, 7137, 222>>, e |-> -55],
    [s |-> 1, m |-> <<3243, 21750, 1685, 206>>, e |-> -109],
    [s |-> 1, m |-> <<20846, 1895, 29471, 249>>, e |-> -53],
    [s |-> -1, m |-> <<13460, 9492, 26859, 144>>, e |-> -109],
    [s |-> 1, m |-> <<2467, 12549, 665, 230>>, e |-> -55],
    [s |-> -1, m |-> <<31851, 14224, 9026, 195>>, e |-> -109],
    [s |-> 1, m |-> <<32749, 11943, 14999, 249>>, e |-> -53],
    [s |-> 1, m |-> <<21891, 16045, 4229, 230>>, e |-> -107],
    [s |-> 1, m |-> <<9680, 16235, 26501, 237>>, e |-> -55],
    [s |-> -1, m |-> <<28610, 11672, 14467, 153>>, e |-> -109],
    [s |-> 1, m |-> <<25759, 24844, 28, 249>>, e |-> -53],
    [s |-> 1, m |-> <<6219, 11651, 20496, 220>>, e |-> -108],
    [s |-> 1, m |-> <<26019, 32533, 19093, 245>>, e |-> -55],
    [s |-> -1, m |-> <<11499, 24238, 30746, 133>>, e |-> -109],
    [s |-> 1, m |-> <<1851, 5003, 17328, 248>>, e |-> -53],
    [s |-> 1, m |-> <<4739, 27736, 16841, 236>>, e |-> -107],
    [s |-> 1, m |-> <<5495, 10726, 11195, 253>>, e |-> -55],
    [s |-> -1, m |-> <<12984, 8476, 30241, 138>>, e |-> -109],
    [s |-> 1, m |-> <<28321, 16123, 1362, 248>>, e |-> -53],
    [s |-> 1, m |-> <<19197, 13259, 28794, 233>>, e |-> -107],
    [s |-> 1, m |-> <<5468, 32458, 17778, 130>>, e |-> -54],
    [s |-> -1, m |-> <<3784, 15355, 25354, 205>>, e |-> -108],
    [s |-> 1, m |-> <<12070, 24602, 17668, 247>>, e |-> -53],
    [s |-> -1, m |-> <<21362, 4541, 10348, 149>>, e |-> -107],
    [s |-> 1, m |-> <<25654, 7654, 13315, 134>>, e |-> -54],
    [s |-> -1, m |-> <<25269, 6439, 27688, 207>>, e |-> -108],
    [s |-> 1, m |-> <<28956, 30593, 711, 247>>, e |-> -53],
    [s |-> -1, m |-> <<17329, 375, 29838, 223>>, e |-> -111],
    [s |-> 1, m |-> <<24043, 21801, 8582, 138>>, e |-> -54],
    [s |-> -1, m |-> <<5540, 27500, 8710, 223>>, e |-> -109],
    [s |-> 1, m |-> <<28577, 2475, 16029, 246>>, e |-> -53],
    [s |-> -1, m |-> <<16848, 5610, 13353, 171>>, e |-> -110],
    [s |-> 1, m |-> <<14454, 18829, 3573, 142>>, e |-> -54],
    [s |-> 1, m |-> <<20469, 31771, 475, 163>>, e |-> -108],
    [s |-> 1, m |-> <<28584, 7917, 30853, 245>>, e |-> -53],
    [s |-> -1, m |-> <<21566, 9588, 15996, 129>>, e |-> -107],
    [s |-> 1, m |-> <<12086, 8757, 31048, 145>>, e |-> -54],
    [s |-> -1, m |-> <<32536, 26269, 16896, 167>>, e |-> -108],
    [s |-> 1, m |-> <<12111, 17271, 12417, 245>>, e |-> -53],
    [s |-> 1, m |-> <<25997, 32040, 1876, 150>>, e |-> -109],
    [s |-> 1, m |-> <<13471, 2173, 25463, 149>>, e |-> -54],
    [s |-> 1, m |-> <<22535, 13285, 21730, 138>>, e |-> -109],
    [s |-> 1, m |-> <<19843, 1871, 26259, 244>>, e |-> -53],
    [s |-> -1, m |-> <<15592, 14218, 6444, 145>>, e |-> -107],
    [s |-> 1, m |-> <<8071, 10249, 19578, 153>>, e |-> -54],
    [s |-> 1, m |-> <<12332, 26648, 13018, 240>>, e |-> -108],
    [s |-> 1, m |-> <<10733, 32339, 6842, 244>>, e |-> -53],
    [s |-> 1, m |-> <<22695, 31606, 26091, 201>>, e |-> -107],
    [s |-> 1, m |-> <<21464, 11987, 13386, 157>>, e |-> -54],
    [s |-> 1, m |-> <<920, 2319, 30036, 129>>, e |-> -115],
    [s |-> 1, m |-> <<15680, 16434, 19706, 243>>, e |-> -53],
    [s |-> -1, m |-> <<19987, 27277, 2604, 178>>, e |-> -107],
    [s |-> 1, m |-> <<26263, 19773, 6879, 161>>, e |-> -54],
    [s |-> -1, m |-> <<17823, 11787, 10013, 248>>, e |-> -108],
    [s |-> 1, m |-> <<27088, 26733, 32082, 242>>, e |-> -53],
    [s |-> 1, m |-> <<18620, 8287, 11327, 191>>, e |-> -107],
    [s |-> 1, m |-> <<15648, 13854, 50, 165>>, e |-> -54],
    [s |-> 1, m |-> <<3757, 22369, 3817, 193>>, e |-> -108],
    [s |-> 1, m |-> <<17564, 5716, 11205, 242>>, e |-> -53],
    [s |-> -1, m |-> <<26675, 23828, 12928, 180>>, e |-> -107],
    [s |-> 1, m |-> <<10106, 7889, 25659, 168>>, e |-> -54],
    [s |-> 1, m |-> <<28915, 11229, 21957, 217>>, e |-> -108],
    [s |-> 1, m |-> <<22181, 27905, 22610, 241>>, e |-> -53],
    [s |-> -1, m |-> <<21047, 21506, 24142, 147>>, e |-> -108],
    [s |-> 1, m |-> <<30103, 16197, 18162, 172>>, e |-> -54],
    [s |-> 1, m |-> <<24779, 22655, 7470, 190>>, e |-> -109],
    [s |-> 1, m |-> <<22209, 4953, 765, 241>>, e |-> -53],
    [s |-> -1, m |-> <<25452, 4062, 699, 179>>, e |-> -110],
    [s |-> 1, m |-> <<1909, 21007, 10320, 176>>, e |-> -54],
    [s |-> 1, m |-> <<4403, 5969, 32608, 216>>, e |-> -110],
    [s |-> 1, m |-> <<23502, 13319, 11205, 240>>, e |-> -53],
    [s |-> 1, m |-> <<6886, 1262, 9116, 255>>, e |-> -110],
    [s |-> 1, m |-> <<22519, 5233, 2126, 180>>, e |-> -54],
    [s |-> -1, m |-> <<19117, 1160, 8776, 236>>, e |-> -108],
    [s |-> 1, m |-> <<1886, 32123, 21164, 239>>, e |-> -53],
    [s |-> -1, m |-> <<14020, 31950, 13865, 241>>, e |-> -107],
    [s |-> 1, m |-> <<597, 18036, 26339, 183>>, e |-> -54],
    [s |-> 1, m |-> <<23053, 7635, 12037, 161>>, e |-> -108],
    [s |-> 1, m |-> <<10454, 8676, 30645, 238>>, e |-> -53],
    [s |-> -1, m |-> <<8895, 10327, 803, 244>>, e |-> -109],
    [s |-> 1, m |-> <<16916, 10988, 17417, 187>>, e |-> -54],
    [s |-> -1, m |-> <<14030, 25239, 11100, 183>>, e |-> -109],
    [s |-> 1, m |-> <<22802, 22322, 6879, 238>>, e |-> -53],
    [s |-> 1, m |-> <<19765, 28379, 19857, 165>>, e |-> -110],
    [s |-> 1, m |-> <<27982, 1936, 8120, 191>>, e |-> -54],
    [s |-> -1, m |-> <<23282, 13694, 3827, 219>>, e |-> -108],
    [s |-> 1, m |-> <<3715, 22289, 15405, 237>>, e |-> -53],
    [s |-> 1, m |-> <<23786, 22204, 4728, 209>>, e |-> -107],
    [s |-> 1, m |-> <<26953, 9476, 31208, 194>>, e |-> -54],
    [s |-> 1, m |-> <<11488, 14015, 4154, 197>>, e |-> -108],
    [s |-> 1, m |-> <<10716, 24291, 23456, 236>>, e |-> -53],
    [s |-> 1, m |-> <<925, 11172, 22639, 255>>, e |-> -107],
    [s |-> 1, m |-> <<6447, 20201, 21138, 198>>, e |-> -54],
    [s |-> 1, m |-> <<25382, 21740, 10251, 162>>, e |-> -108],
    [s |-> 1, m |-> <<31562, 12226, 31034, 235>>, e |-> -53],
    [s |-> -1, m |-> <<28052, 27223, 24000, 157>>, e |-> -109],
    [s |-> 1, m |-> <<18117, 21482, 10671, 202>>, e |-> -54],
    [s |-> -1, m |-> <<16216, 31952, 29572, 180>>, e |-> -108],
    [s |-> 1, m |-> <<16448, 3708, 5372, 235>>, e |-> -53],
    [s |-> -1, m |-> <<27703, 1687, 2265, 187>>, e |-> -107],
    [s |-> 1, m |-> <<1296, 1488, 32568, 205>>, e |-> -54],
    [s |-> 1, m |-> <<12452, 17985, 30950, 132>>, e |-> -108],
    [s |-> 1, m |-> <<6624, 17292, 12007, 234>>, e |-> -53],
    [s |-> 1, m |-> <<3937, 28427, 21229, 249>>, e |-> -107],
    [s |-> 1, m |-> <<3274, 14730, 21284, 209>>, e |-> -54],
    [s |-> -1, m |-> <<20173, 30369, 17464, 209>>, e |-> -110],
    [s |-> 1, m |-> <<31750, 6938, 18174, 233>>, e |-> -53],
    [s |-> 1, m |-> <<19421, 24851, 884, 243>>, e |-> -108],
    [s |-> 1, m |-> <<4727, 18241, 9581, 213>>, e |-> -54],
    [s |-> -1, m |-> <<897, 25208, 9466, 177>>, e |-> -109],
    [s |-> 1, m |-> <<5360, 25851, 23873, 232>>, e |-> -53],
    [s |-> 1, m |-> <<9358, 15747, 21676, 134>>, e |-> -107],
    [s |-> 1, m |-> <<5655, 2660, 30220, 216>>, e |-> -54],
    [s |-> -1, m |-> <<29977, 5939, 2315, 215>>, e |-> -108],
    [s |-> 1, m |-> <<11679, 29861, 29107, 231>>, e |-> -53],
    [s |-> 1, m |-> <<10765, 8478, 22229, 197>>, e |-> -107],
    [s |-> 1, m |-> <<11331, 25015, 17656, 220>>, e |-> -54],
    [s |-> -1, m |-> <<16369, 24280, 25268, 241>>, e |-> -108],
    [s |-> 1, m |-> <<741, 8501, 1110, 231>>, e |-> -53],
    [s |-> 1, m |-> <<4250, 30306, 17638, 143>>, e |-> -107],
    [s |-> 1, m |-> <<16547, 12130, 4652, 224>>, e |-> -54],
    [s |-> 1, m |-> <<8103, 27389, 32665, 140>>, e |-> -109],
    [s |-> 1, m |-> <<5934, 17765, 5418, 230>>, e |-> -53],
    [s |-> 1, m |-> <<15000, 22352, 14424, 167>>, e |-> -109],
    [s |-> 1, m |-> <<20894, 22783, 23967, 227>>, e |-> -54],
    [s |-> -1, m |-> <<22566, 13434, 17716, 245>>, e |-> -110],
    [s |-> 1, m |-> <<32011, 16268, 9266, 229>>, e |-> -53],
    [s |-> -1, m |-> <<13410, 4284, 10757, 163>>, e |-> -109],
    [s |-> 1, m |-> <<9503, 18345, 10059, 231>>, e |-> -54],
    [s |-> -1, m |-> <<25240, 9653, 29224, 151>>, e |-> -109],
    [s |-> 1, m |-> <<6788, 29084, 12655, 228>>, e |-> -53],
    [s |-> 1, m |-> <<291, 17074, 20294, 213>>, e |-> -108],
    [s |-> 1, m |-> <<30305, 26632, 28456, 234>>, e |-> -54],
    [s |-> 1, m |-> <<17052, 20159, 10514, 148>>, e |-> -108],
    [s |-> 1, m |-> <<25915, 16663, 15588, 227>>, e |-> -53],
    [s |-> -1, m |-> <<23362, 30549, 1903, 186>>, e |-> -107],
    [s |-> 1, m |-> <<7322, 10853, 13616, 238>>, e |-> -54],
    [s |-> 1, m |-> <<32154, 17123, 21275, 134>>, e |-> -108],
    [s |-> 1, m |-> <<5982, 5910, 18066, 226>>, e |-> -53],
    [s |-> -1, m |-> <<10368, 30517, 28368, 141>>, e |-> -109],
    [s |-> 1, m |-> <<10857, 688, 31067, 241>>, e |-> -54],
    [s |-> -1, m |-> <<30863, 8499, 4616, 133>>, e |-> -110],
    [s |-> 1, m |-> <<23937, 24635, 20090, 225>>, e |-> -53],
    [s |-> -1, m |-> <<17856, 23813, 11223, 229>>, e |-> -107],
    [s |-> 1, m |-> <<1520, 26774, 15265, 245>>, e |-> -54],
    [s |-> -1, m |-> <<637, 31030, 9936, 188>>, e |-> -110],
    [s |-> 1, m |-> <<32080, 3254, 21664, 224>>, e |-> -53],
    [s |-> -1, m |-> <<26664, 9765, 18500, 196>>, e |-> -107],
    [s |-> 1, m |-> <<31099, 22409, 31741, 248>>, e |-> -54],
    [s |-> 1, m |-> <<21084, 29006, 18507, 139>>, e |-> -108],
    [s |-> 1, m |-> <<30006, 4156, 22788, 223>>, e |-> -53],
    [s |-> 1, m |-> <<10657, 11345, 28508, 219>>, e |-> -107],
    [s |-> 1, m |-> <<15511, 20181, 14951, 252>>, e |-> -54],
    [s |-> 1, m |-> <<163, 24154, 25922, 206>>, e |-> -110],
    [s |-> 1, m |-> <<5365, 25093, 23464, 222>>, e |-> -53],
    [s |-> 1, m |-> <<4253, 4376, 28403, 152>>, e |-> -108],
    [s |-> 1, m |-> <<30074, 20901, 30424, 255>>, e |-> -54],
    [s |-> 1, m |-> <<23402, 23840, 10852, 250>>, e |-> -109],
    [s |-> 1, m |-> <<3890, 31942, 23695, 221>>, e |-> -53],
    [s |-> 1, m |-> <<2617, 2650, 12105, 185>>, e |-> -108],
    [s |-> 1, m |-> <<6485, 29581, 22692, 129>>, e |-> -53],
    [s |-> -1, m |-> <<31489, 28786, 25397, 150>>, e |-> -107],
    [s |-> 1, m |-> <<1038, 24241, 23483, 220>>, e |-> -53],
    [s |-> 1, m |-> <<11744, 3871, 26867, 162>>, e |-> -110],
    [s |-> 1, m |-> <<28251, 3368, 13530, 131>>, e |-> -53],
    [s |-> 1, m |-> <<32539, 2673, 22201, 159>>, e |-> -107],
    [s |-> 1, m |-> <<1218, 2414, 22830, 219>>, e |-> -53],
    [s |-> -1, m |-> <<14491, 1078, 24867, 250>>, e |-> -107],
    [s |-> 1, m |-> <<4097, 15676, 4104, 133>>, e |-> -53],
    [s |-> -1, m |-> <<5366, 17010, 22798, 183>>, e |-> -107],
    [s |-> 1, m |-> <<4174, 536, 21737, 218>>, e |-> -53],
    [s |-> 1, m |-> <<31254, 3588, 32229, 199>>, e |-> -110],
    [s |-> 1, m |-> <<26414, 19818, 27180, 134>>, e |-> -53],
    [s |-> -1, m |-> <<26889, 24957, 25467, 210>>, e |-> -107],
    [s |-> 1, m |-> <<2376, 20793, 20206, 217>>, e |-> -53],
    [s |-> 1, m |-> <<27817, 14910, 6804, 245>>, e |-> -107],
    [s |-> 1, m |-> <<7227, 2413, 17219, 136>>, e |-> -53],
    [s |-> 1, m |-> <<6529, 12545, 17958, 236>>, e |-> -107],
    [s |-> 1, m |-> <<9414, 709, 18241, 216>>, e |-> -53],
    [s |-> 1, m |-> <<16578, 15863, 30040, 142>>, e |-> -108],
    [s |-> 1, m |-> <<32642, 16150, 6984, 138>>, e |-> -53],
    [s |-> 1, m |-> <<14760, 15438, 25933, 223>>, e |-> -108],
    [s |-> 1, m |-> <<21109, 9751, 15842, 215>>, e |-> -53],
    [s |-> -1, m |-> <<28564, 29416, 3465, 252>>, e |-> -108],
    [s |-> 1, m |-> <<28080, 15965, 29241, 139>>, e |-> -53],
    [s |-> 1, m |-> <<9352, 8284, 31068, 154>>, e |-> -109],
    [s |-> 1, m |-> <<7653, 19949, 13012, 214>>, e |-> -53],
    [s |-> 1, m |-> <<14028, 7085, 28074, 199>>, e |-> -107],
    [s |-> 1, m |-> <<12253, 22880, 18450, 141>>, e |-> -53],
    [s |-> -1, m |-> <<13823, 24983, 25649, 248>>, e |-> -110],
    [s |-> 1, m |-> <<2323, 4193, 9754, 213>>, e |-> -53],
    [s |-> -1, m |-> <<20592, 3994, 3928, 220>>, e |-> -115],
    [s |-> 1, m |-> <<22348, 25708, 7376, 143>>, e |-> -53],
    [s |-> 1, m |-> <<7514, 18920, 10494, 145>>, e |-> -108],
    [s |-> 1, m |-> <<24621, 1767, 6069, 212>>, e |-> -53],
    [s |-> 1, m |-> <<18322, 28861, 30744, 205>>, e |-> -109],
    [s |-> 1, m |-> <<5327, 13831, 28784, 144>>, e |-> -53],
    [s |-> 1, m |-> <<10801, 5703, 27849, 242>>, e |-> -110],
    [s |-> 1, m |-> <<1711, 20043, 1959, 211>>, e |-> -53],
    [s |-> 1, m |-> <<17727, 17914, 3267, 172>>, e |-> -107],
    [s |-> 1, m |-> <<3003, 9969, 17134, 146>>, e |-> -53],
    [s |-> 1, m |-> <<15566, 18607, 3904, 245>>, e |-> -108],
    [s |-> 1, m |-> <<15823, 1701, 30196, 209>>, e |-> -53],
    [s |-> -1, m |-> <<5737, 22851, 14059, 180>>, e |-> -107],
    [s |-> 1, m |-> <<8295, 4655, 5191, 148>>, e |-> -53],
    [s |-> -1, m |-> <<27504, 13122, 30663, 128>>, e |-> -107],
    [s |-> 1, m |-> <<25669, 21341, 25244, 208>>, e |-> -53],
    [s |-> 1, m |-> <<856, 26328, 30869, 202>>, e |-> -112],
    [s |-> 1, m |-> <<16926, 21776, 25719, 149>>, e |-> -53],
    [s |-> -1, m |-> <<27312, 13890, 3527, 253>>, e |-> -107],
    [s |-> 1, m |-> <<12165, 23330, 19875, 207>>, e |-> -53],
    [s |-> -1, m |-> <<5638, 2802, 18435, 142>>, e |-> -107],
    [s |-> 1, m |-> <<12418, 20276, 13180, 151>>, e |-> -53],
    [s |-> 1, m |-> <<25470, 16847, 21855, 233>>, e |-> -107],
    [s |-> 1, m |-> <<24156, 18404, 14091, 206>>, e |-> -53],
    [s |-> 1, m |-> <<16226, 9522, 26180, 159>>, e |-> -107],
    [s |-> 1, m |-> <<15439, 25233, 338, 153>>, e |-> -53],
    [s |-> 1, m |-> <<4955, 4788, 11528, 251>>, e |-> -107],
    [s |-> 1, m |-> <<25876, 18132, 7894, 205>>, e |-> -53],
    [s |-> 1, m |-> <<10153, 6463, 2879, 185>>, e |-> -107],
    [s |-> 1, m |-> <<871, 29564, 19958, 154>>, e |-> -53],
    [s |-> 1, m |-> <<16624, 30176, 18937, 217>>, e |-> -109],
    [s |-> 1, m |-> <<4880, 2140, 1287, 204>>, e |-> -53],
    [s |-> 1, m |-> <<28813, 2321, 32736, 232>>, e |-> -107],
    [s |-> 1, m |-> <<10283, 26796, 6501, 156>>, e |-> -53],
    [s |-> -1, m |-> <<1960, 21110, 16054, 136>>, e |-> -108],
    [s |-> 1, m |-> <<12797, 16409, 27039, 202>>, e |-> -53],
    [s |-> -1, m |-> <<1581, 17471, 31734, 133>>, e |-> -107],
    [s |-> 1, m |-> <<1034, 11077, 25500, 157>>, e |-> -53],
    [s |-> -1, m |-> <<28795, 20389, 22862, 203>>, e |-> -108],
    [s |-> 1, m |-> <<7826, 9435, 19618, 201>>, e |-> -53],
    [s |-> -1, m |-> <<3290, 1728, 24000, 221>>, e |-> -107],
    [s |-> 1, m |-> <<21818, 9945, 11415, 159>>, e |-> -53],
    [s |-> -1, m |-> <<4032, 17070, 5571, 223>>, e |-> -110],
    [s |-> 1, m |-> <<23287, 28827, 11793, 200>>, e |-> -53],
    [s |-> -1, m |-> <<15239, 5490, 31428, 135>>, e |-> -108],
    [s |-> 1, m |-> <<26512, 18804, 29779, 160>>, e |-> -53],
    [s |-> 1, m |-> <<27893, 9487, 575, 163>>, e |-> -107],
    [s |-> 1, m |-> <<6865, 24699, 3568, 199>>, e |-> -53],
    [s |-> -1, m |-> <<19448, 27258, 3730, 163>>, e |-> -109],
    [s |-> 1, m |-> <<14443, 926, 15054, 162>>, e |-> -53],
    [s |-> -1, m |-> <<21765, 15572, 13744, 159>>, e |-> -107],
    [s |-> 1, m |-> <<18688, 13499, 27713, 197>>, e |-> -53],
    [s |-> 1, m |-> <<29889, 32040, 3968, 195>>, e |-> -107],
    [s |-> 1, m |-> <<5535, 18530, 3, 164>>, e |-> -53],
    [s |-> -1, m |-> <<27920, 26823, 25897, 216>>, e |-> -107],
    [s |-> 1, m |-> <<1823, 12475, 18694, 196>>, e |-> -53],
    [s |-> 1, m |-> <<28036, 2087, 9063, 226>>, e |-> -107],
    [s |-> 1, m |-> <<14177, 3413, 17393, 165>>, e |-> -53],
    [s |-> 1, m |-> <<17818, 26393, 26645, 134>>, e |-> -113],
    [s |-> 1, m |-> <<9926, 6895, 9282, 195>>, e |-> -53],
    [s |-> 1, m |-> <<27101, 17791, 25599, 153>>, e |-> -108],
    [s |-> 1, m |-> <<21787, 19101, 1683, 167>>, e |-> -53],
    [s |-> -1, m |-> <<18282, 4975, 9406, 210>>, e |-> -107],
    [s |-> 1, m |-> <<7328, 15584, 32247, 193>>, e |-> -53],
    [s |-> -1, m |-> <<18152, 16695, 19261, 138>>, e |-> -111],
    [s |-> 1, m |-> <<13596, 31478, 18407, 168>>, e |-> -53],
    [s |-> -1, m |-> <<2097, 17289, 929, 174>>, e |-> -107],
    [s |-> 1, m |-> <<27997, 25378, 22056, 192>>, e |-> -53],
    [s |-> -1, m |-> <<10462, 5892, 8932, 239>>, e |-> -109],
    [s |-> 1, m |-> <<14116, 7095, 2027, 170>>, e |-> -53],
    [s |-> 1, m |-> <<21393, 2625, 19210, 145>>, e |-> -108],
    [s |-> 1, m |-> <<5256, 23892, 11480, 191>>, e |-> -53],
    [s |-> 1, m |-> <<5535, 18763, 30102, 208>>, e |-> -110],
    [s |-> 1, m |-> <<22963, 11482, 18074, 171>>, e |-> -53],
    [s |-> 1, m |-> <<12696, 6687, 4333, 228>>, e |-> -110],
    [s |-> 1, m |-> <<25935, 32275, 521, 190>>, e |-> -53],
    [s |-> -1, m |-> <<28264, 11861, 20315, 227>>, e |-> -109],
    [s |-> 1, m |-> <<14866, 12546, 1010, 173>>, e |-> -53],
    [s |-> -1, m |-> <<8827, 28584, 2954, 236>>, e |-> -107],
    [s |-> 1, m |-> <<25923, 6910, 21951, 188>>, e |-> -53],
    [s |-> -1, m |-> <<23268, 21416, 18907, 213>>, e |-> -107],
    [s |-> 1, m |-> <<3853, 11647, 16368, 174>>, e |-> -53],
    [s |-> 1, m |-> <<22410, 25046, 13005, 203>>, e |-> -107],
    [s |-> 1, m |-> <<8479, 3242, 10235, 187>>, e |-> -53],
    [s |-> -1, m |-> <<26821, 7960, 8023, 193>>, e |-> -109],
    [s |-> 1, m |-> <<7767, 10837, 31377, 175>>, e |-> -53],
    [s |-> 1, m |-> <<8375, 28636, 23355, 133>>, e |-> -107],
    [s |-> 1, m |-> <<31649, 11933, 30912, 185>>, e |-> -53],
    [s |-> -1, m |-> <<11615, 31529, 20152, 174>>, e |-> -109],
    [s |-> 1, m |-> <<11385, 12867, 13266, 177>>, e |-> -53],
    [s |-> -1, m |-> <<9242, 11116, 30305, 246>>, e |-> -107],
    [s |-> 1, m |-> <<30328, 24398, 18449, 184>>, e |-> -53],
    [s |-> 1, m |-> <<7297, 18949, 5826, 161>>, e |-> -107],
    [s |-> 1, m |-> <<26453, 21191, 27568, 178>>, e |-> -53],
    [s |-> 1, m |-> <<1340, 22242, 7141, 137>>, e |-> -107],
    [s |-> 1, m |-> <<30046, 25, 5618, 183>>, e |-> -53],
    [s |-> 1, m |-> <<20646, 15799, 2587, 176>>, e |-> -107],
    [s |-> 1, m |-> <<19247, 7206, 8745, 180>>, e |-> -53],
    [s |-> -1, m |-> <<21990, 27785, 24397, 181>>, e |-> -107],
    [s |-> 1, m |-> <<31581, 30013, 25187, 181>>, e |-> -53],
    [s |-> 1, m |-> <<29874, 3481, 27422, 138>>, e |-> -108],
    [s |-> 1, m |-> <<538, 8559, 22329, 181>>, e |-> -53],
    [s |-> -1, m |-> <<11791, 7904, 21590, 174>>, e |-> -109],
    [s |-> 1, m |-> <<25171, 9686, 11626, 180>>, e |-> -53],
    [s |-> -1, m |-> <<30876, 13067, 9323, 205>>, e |-> -107],
    [s |-> 1, m |-> <<15841, 30849, 2781, 183>>, e |-> -53],
    [s |-> -1, m |-> <<11603, 2815, 7334, 135>>, e |-> -108],
    [s |-> 1, m |-> <<3258, 31703, 30471, 178>>, e |-> -53],
    [s |-> -1, m |-> <<31863, 3686, 28781, 203>>, e |-> -110],
    [s |-> 1, m |-> <<3136, 14869, 15636, 184>>, e |-> -53],
    [s |-> 1, m |-> <<30477, 28938, 31608, 203>>, e |-> -109],
    [s |-> 1, m |-> <<4551, 25603, 16191, 177>>, e |-> -53],
    [s |-> 1, m |-> <<22255, 4782, 17678, 236>>, e |-> -109],
    [s |-> 1, m |-> <<9592, 445, 28122, 185>>, e |-> -53],
    [s |-> -1, m |-> <<4770, 3512, 4620, 145>>, e |-> -108],
    [s |-> 1, m |-> <<25567, 19946, 1556, 176>>, e |-> -53],
    [s |-> 1, m |-> <<13008, 16840, 12951, 163>>, e |-> -107],
    [s |-> 1, m |-> <<13604, 28143, 7467, 187>>, e |-> -53],
    [s |-> 1, m |-> <<1192, 10585, 29950, 244>>, e |-> -108],
    [s |-> 1, m |-> <<29050, 11235, 19337, 174>>, e |-> -53],
    [s |-> 1, m |-> <<2347, 2449, 17668, 129>>, e |-> -107],
    [s |-> 1, m |-> <<7506, 8200, 19207, 188>>, e |-> -53],
    [s |-> -1, m |-> <<21739, 23910, 31767, 213>>, e |-> -107],
    [s |-> 1, m |-> <<16503, 29444, 4000, 173>>, e |-> -53],
    [s |-> 1, m |-> <<15970, 20147, 8872, 161>>, e |-> -107],
    [s |-> 1, m |-> <<13250, 15441, 30569, 189>>, e |-> -53],
    [s |-> 1, m |-> <<915, 31130, 17509, 214>>, e |-> -111],
    [s |-> 1, m |-> <<1010, 6941, 21086, 171>>, e |-> -53],
    [s |-> 1, m |-> <<11555, 24144, 7250, 250>>, e |-> -107],
    [s |-> 1, m |-> <<31065, 27142, 8783, 191>>, e |-> -53],
    [s |-> 1, m |-> <<3148, 21706, 15342, 135>>, e |-> -107],
    [s |-> 1, m |-> <<11429, 7858, 5060, 170>>, e |-> -53],
    [s |-> -1, m |-> <<9775, 19855, 27555, 243>>, e |-> -107],
    [s |-> 1, m |-> <<19364, 21340, 19383, 192>>, e |-> -53],
    [s |-> -1, m |-> <<11738, 16000, 3115, 188>>, e |-> -107],
    [s |-> 1, m |-> <<29658, 31479, 21461, 168>>, e |-> -53],
    [s |-> 1, m |-> <<16985, 231, 26690, 163>>, e |-> -108]>>

\* the index in SinCosTab of the row for u = |x| + big, whose last bits count
\* the multiples of 1/128 nearest to |x|
SinCosRow[u \in Dyadics] == 4 * FFloor[XMul[FSub[u, CosData.big], FromInt[128]]]

\* do_cos(a, da), the cosine of a + da for |a| < 0.855469, by the steps x (the
\* distance of |a| + da from the multiple of 1/128), xx = x * x, s and c (the
\* polynomials near sin x and 1 - cos x), and the correction cor of the table's cs
DoCos_cor[s \in Dyadics, c \in Dyadics, k \in Nat] ==
    FAdd[SinCosTab[k + 3],
         FMA[XNeg[s], SinCosTab[k + 1],
             FMA[XNeg[c], SinCosTab[k + 3],
                 FMA[XNeg[s], SinCosTab[k + 2], SinCosTab[k + 4]]]]]

DoCos_xx[x \in Dyadics, xx \in Dyadics, k \in Nat] ==
    DoCos_cor[FMA[FMul[x, xx], FMA[xx, CosData.sn5, CosData.sn3], x],
              FMul[xx, FMA[xx, FMA[xx, CosData.cs6, CosData.cs4], CosData.cs2]],
              k]

DoCos_x[x \in Dyadics, k \in Nat] == DoCos_xx[x, FMul[x, x], k]

DoCos_u[a \in Dyadics, da \in Dyadics, u \in Dyadics] ==
    DoCos_x[FAdd[FSub[XAbs[a], FSub[u, CosData.big]], IF a.s < 0 THEN XNeg[da] ELSE da],
            SinCosRow[u]]

DoCos[a \in Dyadics, da \in Dyadics] == DoCos_u[a, da, FAdd[XAbs[a], CosData.big]]

\* TAYLOR_SIN(xx, a, da), the sine of a + da for |a| < 0.126, xx = a * a
TaylorSin_xx[a \in Dyadics, da \in Dyadics, xx \in Dyadics] ==
    FAdd[a,
         FMA[xx,
             FMA[FMA[xx,
                     FMA[xx,
                         FMA[xx, FMA[xx, CosData.s5, CosData.s4], CosData.s3],
                         CosData.s2],
                     CosData.s1],
                 a, XNeg[FMul[da, Half]]],
             da]]

\* do_sin(a, da), the sine of a + da for |a| < 0.855469, by the polynomial or by
\* the steps x, xx, s and c (near sin x and 1 - cos x, with dx taken in), and the
\* correction cor of the table's sn; the result takes the sign of a
DoSin_cor[a \in Dyadics, s \in Dyadics, c \in Dyadics, k \in Nat] ==
    [FAdd[SinCosTab[k + 1],
          FMA[s, SinCosTab[k + 3],
              FMA[XNeg[c], SinCosTab[k + 1],
                  FMA[s, SinCosTab[k + 4], SinCosTab[k + 2]]]]]
     EXCEPT !.s = a.s]

DoSin_xx[a \in Dyadics, dx \in Dyadics, x \in Dyadics, xx \in Dyadics, k \in Nat] ==
    DoSin_cor[a,
              FAdd[x, FMA[FMul[x, xx], FMA[xx, CosData.sn5, CosData.sn3], dx]],
              FMA[x, dx, FMul[xx, FMA[xx, FMA[xx, CosData.cs6, CosData.cs4], CosData.cs2]]],
              k]

DoSin_x[a \in Dyadics, dx \in Dyadics, x \in Dyadics, k \in Nat] ==
    DoSin_xx[a, dx, x, FMul[x, x], k]

DoSin_u[a \in Dyadics, da \in Dyadics, u \in Dyadics] ==
    DoSin_x[a, IF a.s <= 0 THEN XNeg[da] ELSE da,
            FSub[XAbs[a], FSub[u, CosData.big]], SinCosRow[u]]

DoSin[a \in Dyadics, da \in Dyadics] ==
    IF Less[XAbs[a], CosData.taylor]
    THEN TaylorSin_xx[a, da, FMul[a, a]]
    ELSE DoSin_u[a, da, FAdd[XAbs[a], CosData.big]]

Reductions == [n : Int, a : Dyadics, da : Dyadics]

\* reduce_sincos(x, &a, &da): n, a and da with x near n * pi/2 + a + da and
\* |a| <= pi/4, n taken modulo 4; by the steps xn (the multiple, rounded by
\* adding and subtracting toint), y, t2 and b (x less xn times the parts mp1,
\* mp2, pp3, pp4 of pi/2)
ReduceSinCos_b[xn \in Dyadics, t2 \in Dyadics, db \in Dyadics, b \in Dyadics] ==
    [n |-> FFloor[xn] % 4, a |-> b,
     da |-> FAdd[db, FMA[XNeg[xn], CosData.pp4, FSub[t2, b]]]]

ReduceSinCos_t2[xn \in Dyadics, y \in Dyadics, t2 \in Dyadics] ==
    ReduceSinCos_b[xn, t2,
                   FMA[XNeg[CosData.pp3], xn, FSub[y, t2]],
                   FMA[XNeg[xn], CosData.pp4, t2]]

ReduceSinCos_y[xn \in Dyadics, y \in Dyadics] ==
    ReduceSinCos_t2[xn, y, FMA[XNeg[xn], CosData.pp3, y]]

ReduceSinCos_xn[x \in Dyadics, xn \in Dyadics] ==
    ReduceSinCos_y[xn, FMA[XNeg[xn], CosData.mp2, FMA[XNeg[xn], CosData.mp1, x]]]

ReduceSinCos[x \in Dyadics] ==
    ReduceSinCos_xn[x, FSub[FMA[x, CosData.hpinv, CosData.toint], CosData.toint]]

\* cos(x) = sin(pi/2 - |x|) for 0.855469 <= |x| < 2.426265, with y = hp0 - |x|
\* and pi/2 in the two parts hp0 + hp1
CosNearHalfPi_a[y \in Dyadics, a \in Dyadics] ==
    DoSin[a, FAdd[FSub[y, a], CosData.hp1]]

CosNearHalfPi[y \in Dyadics] == CosNearHalfPi_a[y, FAdd[y, CosData.hp1]]

\* cos(x) for 2.426265 <= |x| < 105414336, from the reduction r: the cosine of
\* n * pi/2 + a is the cosine or the sine of a, with a sign
CosReduced[r \in Reductions] ==
    IF r.n = 0 THEN DoCos[r.a, r.da]
    ELSE IF r.n = 1 THEN XNeg[DoSin[r.a, r.da]]
    ELSE IF r.n = 2 THEN XNeg[DoCos[r.a, r.da]]
    ELSE DoSin[r.a, r.da]

\* math.cos(x) for |x| < 105414336
Cos[x \in Dyadics] ==
    CASE Less[XAbs[x], CosData.tiny] -> One
      [] ~Less[XAbs[x], CosData.tiny] /\ Less[XAbs[x], CosData.table] -> DoCos[x, Zero]
      [] ~Less[XAbs[x], CosData.table] /\ Less[XAbs[x], CosData.halfpi] ->
            CosNearHalfPi[FSub[CosData.hp0, XAbs[x]]]
      [] ~Less[XAbs[x], CosData.halfpi] /\ Less[XAbs[x], CosData.reduce] ->
            CosReduced[ReduceSinCos[x]]

---------------------------------------------------------------------------
(* The ** of floats is float.__pow__ of the interpreter, which settles the *)
(* exponent 0, the bases 0 and 1 and the sign of a negative base, and      *)
(* leaves the rest to the pow of the C library, here that of glibc 2.36    *)
(* for x86-64 processors with fused multiply-add.  That pow is within one  *)
(* unit in the last place of the power, not always the nearest double, so  *)
(* its steps are followed one by one, each with its own rounding: log(x)   *)
(* in two parts hi + lo, the product with y in two parts, and the          *)
(* exponential of that.  The constants and the tables are the library's.   *)

\* the constants of log: ln 2 in two parts and the coefficients A[0..6] of the
\* polynomial
PowLogData == [
    \* 0x1.62e42fefa3800p-1
    ln2hi |-> [s |-> 1, m |-> <<14336, 32244, 14603, 177>>, e |-> -53],
    \* 0x1.ef35793c76730p-45
    ln2lo |-> [s |-> 1, m |-> <<26416, 10126, 19806, 247>>, e |-> -97],
    poly |-> <<[s |-> -1, m |-> <<0, 0, 0, 128>>, e |-> -53],
                [s |-> -1, m |-> <<21856, 10922, 21845, 170>>, e |-> -53],
                [s |-> 1, m |-> <<6, 0, 0, 128>>, e |-> -53],
                [s |-> 1, m |-> <<21838, 12978, 26214, 204>>, e |-> -53],
                [s |-> -1, m |-> <<9338, 10835, 21845, 170>>, e |-> -53],
                [s |-> -1, m |-> <<17897, 13968, 9582, 146>>, e |-> -52],
                [s |-> 1, m |-> <<16323, 5708, 174, 128>>, e |-> -52]>>]

\* row i + 1, for i = 0..127, holds <<invc, logc, logctail>>: invc is near 1/c
\* and logc + logctail near log(c), for c near the centre of the subinterval i
\* of [0x1.69555p-1, 0x1.69555p0)
PowLogTab == <<
    <<[s |-> 1, m |-> <<0, 0, 0, 181>>, e |-> -52],
      [s |-> -1, m |-> <<18432, 25971, 12811, 177>>, e |-> -54],
      [s |-> 1, m |-> <<22144, 20590, 20624, 213>>, e |-> -100]>>,
    <<[s |-> 1, m |-> <<0, 0, 0, 180>>, e |-> -52],
      [s |-> -1, m |-> <<2048, 32432, 18166, 174>>, e |-> -54],
      [s |-> -1, m |-> <<30496, 12737, 5155, 229>>, e |-> -98]>>,
    <<[s |-> 1, m |-> <<0, 0, 0, 179>>, e |-> -52],
      [s |-> -1, m |-> <<22528, 11914, 23004, 171>>, e |-> -54],
      [s |-> -1, m |-> <<20589, 11116, 2707, 155>>, e |-> -97]>>,
    <<[s |-> 1, m |-> <<0, 0, 0, 178>>, e |-> -52],
      [s |-> -1, m |-> <<30720, 3675, 27318, 168>>, e |-> -54],
      [s |-> -1, m |-> <<26581, 15712, 5010, 180>>, e |-> -101]>>,
    <<[s |-> 1, m |-> <<0, 0, 0, 177>>, e |-> -52],
      [s |-> -1, m |-> <<30720, 10990, 31102, 165>>, e |-> -54],
      [s |-> -1, m |-> <<16096, 9810, 28070, 160>>, e |-> -99]>>,
    <<[s |-> 1, m |-> <<0, 0, 0, 176>>, e |-> -52],
      [s |-> -1, m |-> <<24576, 1080, 1583, 163>>, e |-> -54],
      [s |-> 1, m |-> <<1228, 4249, 24765, 158>>, e |-> -98]>>,
    <<[s |-> 1, m |-> <<0, 0, 0, 175>>, e |-> -52],
      [s |-> -1, m |-> <<10240, 3341, 4290, 160>>, e |-> -54],
      [s |-> 1, m |-> <<2874, 23300, 3023, 226>>, e |-> -102]>>,
    <<[s |-> 1, m |-> <<0, 0, 0, 174>>, e |-> -52],
      [s |-> -1, m |-> <<18432, 10962, 6449, 157>>, e |-> -54],
      [s |-> 1, m |-> <<5216, 3235, 18202, 133>>, e |-> -97]>>,
    <<[s |-> 1, m |-> <<0, 0, 0, 173>>, e |-> -52],
      [s |-> -1, m |-> <<0, 13617, 8054, 154>>, e |-> -54],
      [s |-> 1, m |-> <<146, 10635, 25911, 170>>, e |-> -97]>>,
    <<[s |-> 1, m |-> <<0, 0, 0, 172>>, e |-> -52],
      [s |-> -1, m |-> <<8192, 30146, 9098, 151>>, e |-> -54],
      [s |-> 1, m |-> <<11224, 13166, 27770, 179>>, e |-> -97]>>,
    <<[s |-> 1, m |-> <<0, 0, 0, 171>>, e |-> -52],
      [s |-> -1, m |-> <<2048, 10173, 9576, 148>>, e |-> -54],
      [s |-> 1, m |-> <<12351, 28063, 10322, 174>>, e |-> -98]>>,
    <<[s |-> 1, m |-> <<0, 0, 0, 171>>, e |-> -52],
      [s |-> -1, m |-> <<2048, 10173, 9576, 148>>, e |-> -54],
      [s |-> 1, m |-> <<12351, 28063, 10322, 174>>, e |-> -98]>>,
    <<[s |-> 1, m |-> <<0, 0, 0, 170>>, e |-> -52],
      [s |-> -1, m |-> <<30720, 30622, 9479, 145>>, e |-> -54],
      [s |-> -1, m |-> <<23158, 20647, 26768, 178>>, e |-> -98]>>,
    <<[s |-> 1, m |-> <<0, 0, 0, 169>>, e |-> -52],
      [s |-> -1, m |-> <<6144, 723, 8803, 142>>, e |-> -54],
      [s |-> -1, m |-> <<21508, 20942, 16113, 253>>, e |-> -98]>>,
    <<[s |-> 1, m |-> <<0, 0, 0, 168>>, e |-> -52],
      [s |-> -1, m |-> <<10240, 22359, 7538, 139>>, e |-> -54],
      [s |-> 1, m |-> <<10480, 26373, 32536, 248>>, e |-> -98]>>,
    <<[s |-> 1, m |-> <<0, 0, 0, 167>>, e |-> -52],
      [s |-> -1, m |-> <<18432, 29532, 5679, 136>>, e |-> -54],
      [s |-> -1, m |-> <<23142, 31242, 8979, 181>>, e |-> -97]>>,
    <<[s |-> 1, m |-> <<0, 0, 0, 166>>, e |-> -52],
      [s |-> -1, m |-> <<4096, 17639, 3219, 133>>, e |-> -54],
      [s |-> -1, m |-> <<782, 32232, 12217, 227>>, e |-> -99]>>,
    <<[s |-> 1, m |-> <<0, 0, 0, 165>>, e |-> -52],
      [s |-> -1, m |-> <<20480, 10601, 150, 130>>, e |-> -54],
      [s |-> -1, m |-> <<11647, 15848, 23266, 129>>, e |-> -100]>>,
    <<[s |-> 1, m |-> <<0, 0, 0, 165>>, e |-> -52],
      [s |-> -1, m |-> <<20480, 10601, 150, 130>>, e |-> -54],
      [s |-> -1, m |-> <<11647, 15848, 23266, 129>>, e |-> -100]>>,
    <<[s |-> 1, m |-> <<0, 0, 0, 164>>, e |-> -52],
      [s |-> -1, m |-> <<16384, 23228, 25697, 253>>, e |-> -55],
      [s |-> 1, m |-> <<15495, 22322, 23722, 234>>, e |-> -99]>>,
    <<[s |-> 1, m |-> <<0, 0, 0, 163>>, e |-> -52],
      [s |-> -1, m |-> <<24576, 6072, 17079, 247>>, e |-> -55],
      [s |-> 1, m |-> <<12068, 14605, 6878, 217>>, e |-> -97]>>,
    <<[s |-> 1, m |-> <<0, 0, 0, 162>>, e |-> -52],
      [s |-> -1, m |-> <<28672, 23637, 7197, 241>>, e |-> -55],
      [s |-> -1, m |-> <<32528, 10367, 15677, 185>>, e |-> -98]>>,
    <<[s |-> 1, m |-> <<0, 0, 0, 161>>, e |-> -52],
      [s |-> -1, m |-> <<16384, 22175, 28805, 234>>, e |-> -55],
      [s |-> 1, m |-> <<26651, 30612, 27206, 141>>, e |-> -97]>>,
    <<[s |-> 1, m |-> <<0, 0, 0, 160>>, e |-> -52],
      [s |-> -1, m |-> <<8192, 3893, 16351, 228>>, e |-> -55],
      [s |-> 1, m |-> <<1076, 20799, 25917, 187>>, e |-> -97]>>,
    <<[s |-> 1, m |-> <<0, 0, 0, 160>>, e |-> -52],
      [s |-> -1, m |-> <<8192, 3893, 16351, 228>>, e |-> -55],
      [s |-> 1, m |-> <<1076, 20799, 25917, 187>>, e |-> -97]>>,
    <<[s |-> 1, m |-> <<0, 0, 0, 159>>, e |-> -52],
      [s |-> -1, m |-> <<4096, 26715, 2585, 222>>, e |-> -55],
      [s |-> 1, m |-> <<14223, 25367, 15040, 202>>, e |-> -98]>>,
    <<[s |-> 1, m |-> <<0, 0, 0, 158>>, e |-> -52],
      [s |-> -1, m |-> <<16384, 7425, 20261, 215>>, e |-> -55],
      [s |-> 1, m |-> <<4198, 32667, 14732, 210>>, e |-> -104]>>,
    <<[s |-> 1, m |-> <<0, 0, 0, 157>>, e |-> -52],
      [s |-> -1, m |-> <<12288, 16325, 3824, 209>>, e |-> -55],
      [s |-> -1, m |-> <<16874, 14477, 12691, 172>>, e |-> -97]>>,
    <<[s |-> 1, m |-> <<0, 0, 0, 157>>, e |-> -52],
      [s |-> -1, m |-> <<12288, 16325, 3824, 209>>, e |-> -55],
      [s |-> -1, m |-> <<16874, 14477, 12691, 172>>, e |-> -97]>>,
    <<[s |-> 1, m |-> <<0, 0, 0, 156>>, e |-> -52],
      [s |-> -1, m |-> <<20480, 14824, 18794, 202>>, e |-> -55],
      [s |-> -1, m |-> <<21731, 2435, 18276, 214>>, e |-> -97]>>,
    <<[s |-> 1, m |-> <<0, 0, 0, 155>>, e |-> -52],
      [s |-> -1, m |-> <<20480, 19009, 32385, 195>>, e |-> -55],
      [s |-> 1, m |-> <<31241, 32695, 30461, 221>>, e |-> -97]>>,
    <<[s |-> 1, m |-> <<0, 0, 0, 154>>, e |-> -52],
      [s |-> -1, m |-> <<24576, 1057, 11812, 189>>, e |-> -55],
      [s |-> 1, m |-> <<19032, 25766, 28225, 222>>, e |-> -97]>>,
    <<[s |-> 1, m |-> <<0, 0, 0, 154>>, e |-> -52],
      [s |-> -1, m |-> <<24576, 1057, 11812, 189>>, e |-> -55],
      [s |-> 1, m |-> <<19032, 25766, 28225, 222>>, e |-> -97]>>,
    <<[s |-> 1, m |-> <<0, 0, 0, 153>>, e |-> -52],
      [s |-> -1, m |-> <<20480, 20019, 22591, 182>>, e |-> -55],
      [s |-> -1, m |-> <<25190, 18277, 4522, 135>>, e |-> -98]>>,
    <<[s |-> 1, m |-> <<0, 0, 0, 152>>, e |-> -52],
      [s |-> -1, m |-> <<4096, 24911, 31937, 175>>, e |-> -55],
      [s |-> -1, m |-> <<20537, 15904, 30990, 244>>, e |-> -98]>>,
    <<[s |-> 1, m |-> <<0, 0, 0, 152>>, e |-> -52],
      [s |-> -1, m |-> <<4096, 24911, 31937, 175>>, e |-> -55],
      [s |-> -1, m |-> <<20537, 15904, 30990, 244>>, e |-> -98]>>,
    <<[s |-> 1, m |-> <<0, 0, 0, 151>>, e |-> -52],
      [s |-> -1, m |-> <<12288, 18243, 7063, 169>>, e |-> -55],
      [s |-> -1, m |-> <<23439, 8206, 31278, 134>>, e |-> -97]>>,
    <<[s |-> 1, m |-> <<0, 0, 0, 150>>, e |-> -52],
      [s |-> -1, m |-> <<0, 22935, 13485, 162>>, e |-> -55],
      [s |-> 1, m |-> <<30780, 17002, 13061, 184>>, e |-> -98]>>,
    <<[s |-> 1, m |-> <<0, 0, 0, 150>>, e |-> -52],
      [s |-> -1, m |-> <<0, 22935, 13485, 162>>, e |-> -55],
      [s |-> 1, m |-> <<30780, 17002, 13061, 184>>, e |-> -98]>>,
    <<[s |-> 1, m |-> <<0, 0, 0, 149>>, e |-> -52],
      [s |-> -1, m |-> <<4096, 16445, 18416, 155>>, e |-> -55],
      [s |-> 1, m |-> <<21562, 6734, 25113, 139>>, e |-> -100]>>,
    <<[s |-> 1, m |-> <<0, 0, 0, 148>>, e |-> -52],
      [s |-> -1, m |-> <<28672, 28735, 21835, 148>>, e |-> -55],
      [s |-> -1, m |-> <<17416, 12003, 13504, 164>>, e |-> -97]>>,
    <<[s |-> 1, m |-> <<0, 0, 0, 147>>, e |-> -52],
      [s |-> -1, m |-> <<24576, 10846, 23723, 141>>, e |-> -55],
      [s |-> -1, m |-> <<9110, 12323, 656, 244>>, e |-> -97]>>,
    <<[s |-> 1, m |-> <<0, 0, 0, 147>>, e |-> -52],
      [s |-> -1, m |-> <<24576, 10846, 23723, 141>>, e |-> -55],
      [s |-> -1, m |-> <<9110, 12323, 656, 244>>, e |-> -97]>>,
    <<[s |-> 1, m |-> <<0, 0, 0, 146>>, e |-> -52],
      [s |-> -1, m |-> <<4096, 31137, 24057, 134>>, e |-> -55],
      [s |-> 1, m |-> <<23540, 4560, 9818, 211>>, e |-> -99]>>,
    <<[s |-> 1, m |-> <<0, 0, 0, 146>>, e |-> -52],
      [s |-> -1, m |-> <<4096, 31137, 24057, 134>>, e |-> -55],
      [s |-> 1, m |-> <<23540, 4560, 9818, 211>>, e |-> -99]>>,
    <<[s |-> 1, m |-> <<0, 0, 0, 145>>, e |-> -52],
      [s |-> -1, m |-> <<24576, 25527, 12868, 255>>, e |-> -56],
      [s |-> -1, m |-> <<13298, 14662, 21841, 171>>, e |-> -97]>>,
    <<[s |-> 1, m |-> <<0, 0, 0, 144>>, e |-> -52],
      [s |-> -1, m |-> <<0, 23638, 7197, 241>>, e |-> -56],
      [s |-> 1, m |-> <<60, 21984, 20656, 209>>, e |-> -97]>>,
    <<[s |-> 1, m |-> <<0, 0, 0, 144>>, e |-> -52],
      [s |-> -1, m |-> <<0, 23638, 7197, 241>>, e |-> -56],
      [s |-> 1, m |-> <<60, 21984, 20656, 209>>, e |-> -97]>>,
    <<[s |-> 1, m |-> <<0, 0, 0, 143>>, e |-> -52],
      [s |-> -1, m |-> <<16384, 7863, 31058, 226>>, e |-> -56],
      [s |-> -1, m |-> <<15878, 12479, 12637, 232>>, e |-> -98]>>,
    <<[s |-> 1, m |-> <<0, 0, 0, 142>>, e |-> -52],
      [s |-> -1, m |-> <<24576, 29845, 18868, 212>>, e |-> -56],
      [s |-> 1, m |-> <<10952, 20663, 25815, 169>>, e |-> -97]>>,
    <<[s |-> 1, m |-> <<0, 0, 0, 142>>, e |-> -52],
      [s |-> -1, m |-> <<24576, 29845, 18868, 212>>, e |-> -56],
      [s |-> 1, m |-> <<10952, 20663, 25815, 169>>, e |-> -97]>>,
    <<[s |-> 1, m |-> <<0, 0, 0, 141>>, e |-> -52],
      [s |-> -1, m |-> <<8192, 11363, 3351, 198>>, e |-> -56],
      [s |-> 1, m |-> <<22120, 6750, 28837, 155>>, e |-> -98]>>,
    <<[s |-> 1, m |-> <<0, 0, 0, 141>>, e |-> -52],
      [s |-> -1, m |-> <<8192, 11363, 3351, 198>>, e |-> -56],
      [s |-> 1, m |-> <<22120, 6750, 28837, 155>>, e |-> -98]>>,
    <<[s |-> 1, m |-> <<0, 0, 0, 140>>, e |-> -52],
      [s |-> -1, m |-> <<24576, 5578, 17226, 183>>, e |-> -56],
      [s |-> -1, m |-> <<29658, 4710, 23775, 180>>, e |-> -97]>>,
    <<[s |-> 1, m |-> <<0, 0, 0, 139>>, e |-> -52],
      [s |-> -1, m |-> <<8192, 32268, 27676, 168>>, e |-> -56],
      [s |-> 1, m |-> <<24151, 17292, 2413, 248>>, e |-> -98]>>,
    <<[s |-> 1, m |-> <<0, 0, 0, 139>>, e |-> -52],
      [s |-> -1, m |-> <<8192, 32268, 27676, 168>>, e |-> -56],
      [s |-> 1, m |-> <<24151, 17292, 2413, 248>>, e |-> -98]>>,
    <<[s |-> 1, m |-> <<0, 0, 0, 138>>, e |-> -52],
      [s |-> -1, m |-> <<24576, 11319, 1886, 154>>, e |-> -56],
      [s |-> 1, m |-> <<5087, 6642, 31595, 226>>, e |-> -97]>>,
    <<[s |-> 1, m |-> <<0, 0, 0, 138>>, e |-> -52],
      [s |-> -1, m |-> <<24576, 11319, 1886, 154>>, e |-> -56],
      [s |-> 1, m |-> <<5087, 6642, 31595, 226>>, e |-> -97]>>,
    <<[s |-> 1, m |-> <<0, 0, 0, 137>>, e |-> -52],
      [s |-> -1, m |-> <<0, 23879, 5339, 139>>, e |-> -56],
      [s |-> 1, m |-> <<8969, 27935, 29049, 163>>, e |-> -98]>>,
    <<[s |-> 1, m |-> <<0, 0, 0, 136>>, e |-> -52],
      [s |-> -1, m |-> <<0, 35, 10435, 248>>, e |-> -57],
      [s |-> 1, m |-> <<3729, 1645, 26234, 234>>, e |-> -97]>>,
    <<[s |-> 1, m |-> <<0, 0, 0, 136>>, e |-> -52],
      [s |-> -1, m |-> <<0, 35, 10435, 248>>, e |-> -57],
      [s |-> 1, m |-> <<3729, 1645, 26234, 234>>, e |-> -97]>>,
    <<[s |-> 1, m |-> <<0, 0, 0, 135>>, e |-> -52],
      [s |-> -1, m |-> <<0, 25139, 2933, 218>>, e |-> -57],
      [s |-> 1, m |-> <<28748, 19372, 2539, 228>>, e |-> -98]>>,
    <<[s |-> 1, m |-> <<0, 0, 0, 135>>, e |-> -52],
      [s |-> -1, m |-> <<0, 25139, 2933, 218>>, e |-> -57],
      [s |-> 1, m |-> <<28748, 19372, 2539, 228>>, e |-> -98]>>,
    <<[s |-> 1, m |-> <<0, 0, 0, 134>>, e |-> -52],
      [s |-> -1, m |-> <<16384, 27749, 20835, 187>>, e |-> -57],
      [s |-> -1, m |-> <<8686, 27109, 28952, 231>>, e |-> -97]>>,
    <<[s |-> 1, m |-> <<0, 0, 0, 134>>, e |-> -52],
      [s |-> -1, m |-> <<16384, 27749, 20835, 187>>, e |-> -57],
      [s |-> -1, m |-> <<8686, 27109, 28952, 231>>, e |-> -97]>>,
    <<[s |-> 1, m |-> <<0, 0, 0, 133>>, e |-> -52],
      [s |-> -1, m |-> <<16384, 29693, 31262, 156>>, e |-> -57],
      [s |-> 1, m |-> <<32426, 27213, 2783, 168>>, e |-> -100]>>,
    <<[s |-> 1, m |-> <<0, 0, 0, 133>>, e |-> -52],
      [s |-> -1, m |-> <<16384, 29693, 31262, 156>>, e |-> -57],
      [s |-> 1, m |-> <<32426, 27213, 2783, 168>>, e |-> -100]>>,
    <<[s |-> 1, m |-> <<0, 0, 0, 132>>, e |-> -52],
      [s |-> -1, m |-> <<0, 7408, 2668, 252>>, e |-> -58],
      [s |-> -1, m |-> <<2532, 30972, 153, 204>>, e |-> -97]>>,
    <<[s |-> 1, m |-> <<0, 0, 0, 132>>, e |-> -52],
      [s |-> -1, m |-> <<0, 7408, 2668, 252>>, e |-> -58],
      [s |-> -1, m |-> <<2532, 30972, 153, 204>>, e |-> -97]>>,
    <<[s |-> 1, m |-> <<0, 0, 0, 131>>, e |-> -52],
      [s |-> -1, m |-> <<0, 4011, 25708, 189>>, e |-> -58],
      [s |-> -1, m |-> <<9785, 10229, 13650, 196>>, e |-> -97]>>,
    <<[s |-> 1, m |-> <<0, 0, 0, 130>>, e |-> -52],
      [s |-> -1, m |-> <<0, 25080, 674, 254>>, e |-> -59],
      [s |-> -1, m |-> <<9884, 28071, 31219, 248>>, e |-> -102]>>,
    <<[s |-> 1, m |-> <<0, 0, 0, 130>>, e |-> -52],
      [s |-> -1, m |-> <<0, 25080, 674, 254>>, e |-> -59],
      [s |-> -1, m |-> <<9884, 28071, 31219, 248>>, e |-> -102]>>,
    <<[s |-> 1, m |-> <<0, 0, 0, 129>>, e |-> -52],
      [s |-> -1, m |-> <<0, 22048, 169, 255>>, e |-> -60],
      [s |-> -1, m |-> <<16612, 7092, 2300, 207>>, e |-> -98]>>,
    <<[s |-> 1, m |-> <<0, 0, 0, 129>>, e |-> -52],
      [s |-> -1, m |-> <<0, 22048, 169, 255>>, e |-> -60],
      [s |-> -1, m |-> <<16612, 7092, 2300, 207>>, e |-> -98]>>,
    <<[s |-> 1, m |-> <<0, 0, 0, 128>>, e |-> -52],
      [s |-> 0, m |-> <<>>, e |-> 0],
      [s |-> 0, m |-> <<>>, e |-> 0]>>,
    <<[s |-> 1, m |-> <<0, 0, 0, 128>>, e |-> -52],
      [s |-> 0, m |-> <<>>, e |-> 0],
      [s |-> 0, m |-> <<>>, e |-> 0]>>,
    <<[s |-> 1, m |-> <<0, 0, 0, 254>>, e |-> -53],
      [s |-> 1, m |-> <<0, 27410, 16469, 128>>, e |-> -59],
      [s |-> -1, m |-> <<11240, 13114, 7598, 134>>, e |-> -98]>>,
    <<[s |-> 1, m |-> <<0, 0, 0, 252>>, e |-> -53],
      [s |-> 1, m |-> <<0, 12583, 345, 129>>, e |-> -58],
      [s |-> -1, m |-> <<30674, 3525, 29036, 158>>, e |-> -97]>>,
    <<[s |-> 1, m |-> <<0, 0, 0, 250>>, e |-> -53],
      [s |-> 1, m |-> <<0, 20882, 9364, 194>>, e |-> -58],
      [s |-> -1, m |-> <<3124, 25780, 744, 213>>, e |-> -97]>>,
    <<[s |-> 1, m |-> <<0, 0, 0, 248>>, e |-> -53],
      [s |-> 1, m |-> <<16384, 5070, 1398, 130>>, e |-> -57],
      [s |-> 1, m |-> <<22355, 14819, 18177, 136>>, e |-> -99]>>,
    <<[s |-> 1, m |-> <<0, 0, 0, 246>>, e |-> -53],
      [s |-> 1, m |-> <<0, 10332, 6843, 163>>, e |-> -57],
      [s |-> -1, m |-> <<32040, 27515, 22989, 224>>, e |-> -97]>>,
    <<[s |-> 1, m |-> <<0, 0, 0, 244>>, e |-> -53],
      [s |-> 1, m |-> <<16384, 10559, 21160, 196>>, e |-> -57],
      [s |-> -1, m |-> <<9853, 8372, 26199, 203>>, e |-> -98]>>,
    <<[s |-> 1, m |-> <<0, 0, 0, 242>>, e |-> -53],
      [s |-> 1, m |-> <<16384, 7099, 11727, 230>>, e |-> -57],
      [s |-> -1, m |-> <<10247, 4016, 9161, 211>>, e |-> -98]>>,
    <<[s |-> 1, m |-> <<0, 0, 0, 241>>, e |-> -53],
      [s |-> 1, m |-> <<16384, 13, 10439, 247>>, e |-> -57],
      [s |-> -1, m |-> <<15227, 8082, 17657, 240>>, e |-> -99]>>,
    <<[s |-> 1, m |-> <<0, 0, 0, 239>>, e |-> -53],
      [s |-> 1, m |-> <<24576, 8844, 23791, 140>>, e |-> -56],
      [s |-> -1, m |-> <<7835, 11291, 18805, 169>>, e |-> -97]>>,
    <<[s |-> 1, m |-> <<0, 0, 0, 237>>, e |-> -53],
      [s |-> 1, m |-> <<24576, 20387, 30678, 157>>, e |-> -56],
      [s |-> 1, m |-> <<20183, 19382, 8570, 230>>, e |-> -97]>>,
    <<[s |-> 1, m |-> <<0, 0, 0, 235>>, e |-> -53],
      [s |-> 1, m |-> <<8192, 6959, 9577, 175>>, e |-> -56],
      [s |-> -1, m |-> <<7454, 30906, 9240, 227>>, e |-> -97]>>,
    <<[s |-> 1, m |-> <<0, 0, 0, 234>>, e |-> -53],
      [s |-> 1, m |-> <<16384, 5589, 844, 184>>, e |-> -56],
      [s |-> 1, m |-> <<27954, 21307, 31286, 224>>, e |-> -101]>>,
    <<[s |-> 1, m |-> <<0, 0, 0, 232>>, e |-> -53],
      [s |-> 1, m |-> <<16384, 15026, 19833, 201>>, e |-> -56],
      [s |-> 1, m |-> <<18394, 30074, 17776, 152>>, e |-> -97]>>,
    <<[s |-> 1, m |-> <<0, 0, 0, 230>>, e |-> -53],
      [s |-> 1, m |-> <<24576, 7002, 11042, 219>>, e |-> -56],
      [s |-> -1, m |-> <<26853, 22510, 16896, 156>>, e |-> -98]>>,
    <<[s |-> 1, m |-> <<0, 0, 0, 229>>, e |-> -53],
      [s |-> 1, m |-> <<16384, 888, 8544, 228>>, e |-> -56],
      [s |-> 1, m |-> <<11475, 3253, 6983, 178>>, e |-> -97]>>,
    <<[s |-> 1, m |-> <<0, 0, 0, 227>>, e |-> -53],
      [s |-> 1, m |-> <<8192, 1556, 7398, 246>>, e |-> -56],
      [s |-> -1, m |-> <<17888, 24524, 418, 238>>, e |-> -97]>>,
    <<[s |-> 1, m |-> <<0, 0, 0, 226>>, e |-> -53],
      [s |-> 1, m |-> <<24576, 29623, 8772, 255>>, e |-> -56],
      [s |-> -1, m |-> <<2813, 8002, 21337, 169>>, e |-> -97]>>,
    <<[s |-> 1, m |-> <<0, 0, 0, 224>>, e |-> -53],
      [s |-> 1, m |-> <<24576, 1103, 24122, 136>>, e |-> -55],
      [s |-> 1, m |-> <<2034, 7258, 15843, 143>>, e |-> -97]>>,
    <<[s |-> 1, m |-> <<0, 0, 0, 223>>, e |-> -53],
      [s |-> 1, m |-> <<28672, 31815, 10413, 141>>, e |-> -55],
      [s |-> 1, m |-> <<6452, 2161, 7737, 229>>, e |-> -97]>>,
    <<[s |-> 1, m |-> <<0, 0, 0, 221>>, e |-> -53],
      [s |-> 1, m |-> <<0, 6413, 17796, 150>>, e |-> -55],
      [s |-> 1, m |-> <<13473, 5891, 30131, 156>>, e |-> -99]>>,
    <<[s |-> 1, m |-> <<0, 0, 0, 220>>, e |-> -53],
      [s |-> 1, m |-> <<4096, 24619, 6130, 155>>, e |-> -55],
      [s |-> 1, m |-> <<29321, 18070, 16032, 177>>, e |-> -103]>>,
    <<[s |-> 1, m |-> <<0, 0, 0, 218>>, e |-> -53],
      [s |-> 1, m |-> <<12288, 1639, 17654, 164>>, e |-> -55],
      [s |-> 1, m |-> <<13944, 10747, 3557, 172>>, e |-> -97]>>,
    <<[s |-> 1, m |-> <<0, 0, 0, 217>>, e |-> -53],
      [s |-> 1, m |-> <<12288, 18755, 8087, 169>>, e |-> -55],
      [s |-> 1, m |-> <<32199, 19154, 20387, 177>>, e |-> -97]>>,
    <<[s |-> 1, m |-> <<0, 0, 0, 215>>, e |-> -53],
      [s |-> 1, m |-> <<4096, 32024, 23866, 178>>, e |-> -55],
      [s |-> 1, m |-> <<11896, 22648, 15916, 206>>, e |-> -98]>>,
    <<[s |-> 1, m |-> <<0, 0, 0, 214>>, e |-> -53],
      [s |-> 1, m |-> <<28672, 5866, 16458, 183>>, e |-> -55],
      [s |-> -1, m |-> <<8673, 19256, 17975, 168>>, e |-> -97]>>,
    <<[s |-> 1, m |-> <<0, 0, 0, 213>>, e |-> -53],
      [s |-> 1, m |-> <<20480, 2696, 9782, 188>>, e |-> -55],
      [s |-> -1, m |-> <<17157, 24866, 6209, 227>>, e |-> -98]>>,
    <<[s |-> 1, m |-> <<0, 0, 0, 211>>, e |-> -53],
      [s |-> 1, m |-> <<0, 22130, 31423, 197>>, e |-> -55],
      [s |-> -1, m |-> <<11473, 21970, 30034, 185>>, e |-> -99]>>,
    <<[s |-> 1, m |-> <<0, 0, 0, 210>>, e |-> -53],
      [s |-> 1, m |-> <<0, 14830, 26987, 202>>, e |-> -55],
      [s |-> 1, m |-> <<32623, 12609, 18593, 191>>, e |-> -99]>>,
    <<[s |-> 1, m |-> <<0, 0, 0, 208>>, e |-> -53],
      [s |-> 1, m |-> <<24576, 30997, 20404, 212>>, e |-> -55],
      [s |-> -1, m |-> <<8553, 8364, 18701, 195>>, e |-> -97]>>,
    <<[s |-> 1, m |-> <<0, 0, 0, 207>>, e |-> -53],
      [s |-> 1, m |-> <<20480, 11959, 18273, 217>>, e |-> -55],
      [s |-> -1, m |-> <<25002, 7513, 22069, 225>>, e |-> -99]>>,
    <<[s |-> 1, m |-> <<0, 0, 0, 206>>, e |-> -53],
      [s |-> 1, m |-> <<24576, 28791, 16924, 222>>, e |-> -55],
      [s |-> -1, m |-> <<4790, 12968, 12049, 234>>, e |-> -97]>>,
    <<[s |-> 1, m |-> <<0, 0, 0, 205>>, e |-> -53],
      [s |-> 1, m |-> <<4096, 3552, 16367, 227>>, e |-> -55],
      [s |-> -1, m |-> <<11218, 2860, 12747, 143>>, e |-> -100]>>,
    <<[s |-> 1, m |-> <<0, 0, 0, 203>>, e |-> -53],
      [s |-> 1, m |-> <<4096, 25001, 17654, 237>>, e |-> -55],
      [s |-> -1, m |-> <<12341, 28203, 31915, 215>>, e |-> -97]>>,
    <<[s |-> 1, m |-> <<0, 0, 0, 202>>, e |-> -53],
      [s |-> 1, m |-> <<4096, 32718, 19515, 242>>, e |-> -55],
      [s |-> 1, m |-> <<29744, 16515, 18589, 144>>, e |-> -103]>>,
    <<[s |-> 1, m |-> <<0, 0, 0, 201>>, e |-> -53],
      [s |-> 1, m |-> <<0, 18874, 22199, 247>>, e |-> -55],
      [s |-> -1, m |-> <<3601, 19319, 1109, 209>>, e |-> -103]>>,
    <<[s |-> 1, m |-> <<0, 0, 0, 200>>, e |-> -53],
      [s |-> 1, m |-> <<12288, 22887, 25713, 252>>, e |-> -55],
      [s |-> 1, m |-> <<24368, 5145, 12211, 222>>, e |-> -98]>>,
    <<[s |-> 1, m |-> <<0, 0, 0, 198>>, e |-> -53],
      [s |-> 1, m |-> <<22528, 16538, 17633, 131>>, e |-> -54],
      [s |-> 1, m |-> <<20113, 11738, 29548, 196>>, e |-> -100]>>,
    <<[s |-> 1, m |-> <<0, 0, 0, 197>>, e |-> -53],
      [s |-> 1, m |-> <<24576, 20162, 4277, 134>>, e |-> -54],
      [s |-> 1, m |-> <<27369, 11385, 25132, 184>>, e |-> -97]>>,
    <<[s |-> 1, m |-> <<0, 0, 0, 196>>, e |-> -53],
      [s |-> 1, m |-> <<26624, 1103, 24122, 136>>, e |-> -54],
      [s |-> -1, m |-> <<28700, 18251, 1081, 225>>, e |-> -97]>>,
    <<[s |-> 1, m |-> <<0, 0, 0, 195>>, e |-> -53],
      [s |-> 1, m |-> <<30720, 5977, 11635, 139>>, e |-> -54],
      [s |-> 1, m |-> <<5761, 28490, 27447, 220>>, e |-> -97]>>,
    <<[s |-> 1, m |-> <<0, 0, 0, 194>>, e |-> -53],
      [s |-> 1, m |-> <<26624, 18100, 32357, 141>>, e |-> -54],
      [s |-> 1, m |-> <<15799, 8847, 7093, 229>>, e |-> -97]>>,
    <<[s |-> 1, m |-> <<0, 0, 0, 193>>, e |-> -53],
      [s |-> 1, m |-> <<14336, 23069, 20757, 144>>, e |-> -54],
      [s |-> 1, m |-> <<15082, 29837, 8058, 212>>, e |-> -99]>>,
    <<[s |-> 1, m |-> <<0, 0, 0, 191>>, e |-> -53],
      [s |-> 1, m |-> <<4096, 31161, 31681, 149>>, e |-> -54],
      [s |-> 1, m |-> <<1268, 5280, 29673, 212>>, e |-> -97]>>,
    <<[s |-> 1, m |-> <<0, 0, 0, 190>>, e |-> -53],
      [s |-> 1, m |-> <<24576, 17318, 21447, 152>>, e |-> -54],
      [s |-> -1, m |-> <<15544, 9794, 2539, 199>>, e |-> -97]>>,
    <<[s |-> 1, m |-> <<0, 0, 0, 189>>, e |-> -53],
      [s |-> 1, m |-> <<4096, 28028, 11677, 155>>, e |-> -54],
      [s |-> 1, m |-> <<30664, 25058, 15158, 139>>, e |-> -98]>>,
    <<[s |-> 1, m |-> <<0, 0, 0, 188>>, e |-> -53],
      [s |-> 1, m |-> <<12288, 28262, 2377, 158>>, e |-> -54],
      [s |-> 1, m |-> <<15708, 27661, 27986, 193>>, e |-> -98]>>,
    <<[s |-> 1, m |-> <<0, 0, 0, 187>>, e |-> -53],
      [s |-> 1, m |-> <<26624, 18347, 26320, 160>>, e |-> -54],
      [s |-> 1, m |-> <<24733, 22817, 4315, 199>>, e |-> -99]>>,
    <<[s |-> 1, m |-> <<0, 0, 0, 186>>, e |-> -53],
      [s |-> 1, m |-> <<18432, 1251, 17975, 163>>, e |-> -54],
      [s |-> -1, m |-> <<22133, 4815, 7992, 249>>, e |-> -97]>>,
    <<[s |-> 1, m |-> <<0, 0, 0, 185>>, e |-> -53],
      [s |-> 1, m |-> <<12288, 15406, 10114, 166>>, e |-> -54],
      [s |-> -1, m |-> <<22692, 13845, 548, 241>>, e |-> -97]>>,
    <<[s |-> 1, m |-> <<0, 0, 0, 184>>, e |-> -53],
      [s |-> 1, m |-> <<8192, 3697, 2744, 169>>, e |-> -54],
      [s |-> 1, m |-> <<18265, 713, 31170, 245>>, e |-> -97]>>,
    <<[s |-> 1, m |-> <<0, 0, 0, 183>>, e |-> -53],
      [s |-> 1, m |-> <<20480, 10129, 28637, 171>>, e |-> -54],
      [s |-> 1, m |-> <<16623, 23738, 14263, 253>>, e |-> -98]>>,
    <<[s |-> 1, m |-> <<0, 0, 0, 182>>, e |-> -53],
      [s |-> 1, m |-> <<24576, 16050, 22263, 174>>, e |-> -54],
      [s |-> -1, m |-> <<26076, 4424, 11432, 208>>, e |-> -99]>>>>

\* the constants of exp: 128/ln 2, the number shift that rounds by being
\* added, -ln 2/128 in two parts, and the coefficients C2..C5 of the polynomial
ExpData == [
    \* 0x1.71547652b82fep+7
    invln2N |-> [s |-> 1, m |-> <<766, 19031, 21789, 184>>, e |-> -45],
    \* 0x1.8000000000000p+52
    shift |-> [s |-> 1, m |-> <<0, 0, 0, 192>>, e |-> 0],
    \* -0x1.62e42fefa0000p-8
    negln2hiN |-> [s |-> -1, m |-> <<0, 32244, 14603, 177>>, e |-> -60],
    \* -0x1.cf79abc9e3b3ap-47
    negln2loN |-> [s |-> -1, m |-> <<15162, 31036, 24170, 231>>, e |-> -99],
    poly |-> <<[s |-> 1, m |-> <<32189, 32767, 32767, 255>>, e |-> -54],
                [s |-> 1, m |-> <<21564, 10922, 21845, 170>>, e |-> -55],
                [s |-> 1, m |-> <<11153, 7726, 21847, 170>>, e |-> -57],
                [s |-> 1, m |-> <<20503, 20297, 17477, 136>>, e |-> -59]>>]

\* row j + 1, for j = 0..127, holds <<tail, scale>>: scale is the double
\* nearest to 2^(j/128) and tail the rest, 2^(j/128) - scale, as a double.  (The
\* library stores the bits of scale with j * 2^45 subtracted, to add the bits
\* of k * 2^45 in one step; the sum is scale * 2^(k \div 128).)
ExpTab == <<
    <<[s |-> 0, m |-> <<>>, e |-> 0],
      [s |-> 1, m |-> <<0, 0, 0, 128>>, e |-> -52]>>,
    <<[s |-> 1, m |-> <<16238, 13585, 27964, 217>>, e |-> -106],
      [s |-> 1, m |-> <<13109, 21494, 22774, 128>>, e |-> -52]>>,
    <<[s |-> -1, m |-> <<23645, 14769, 78, 139>>, e |-> -108],
      [s |-> 1, m |-> <<97, 31983, 12904, 129>>, e |-> -52]>>,
    <<[s |-> -1, m |-> <<26321, 8462, 31208, 130>>, e |-> -106],
      [s |-> 1, m |-> <<32645, 20700, 3159, 130>>, e |-> -52]>>,
    <<[s |-> 1, m |-> <<30227, 27343, 18760, 230>>, e |-> -107],
      [s |-> 1, m |-> <<1396, 9771, 26307, 130>>, e |-> -52]>>,
    <<[s |-> -1, m |-> <<3834, 18419, 14848, 222>>, e |-> -107],
      [s |-> 1, m |-> <<30430, 21435, 16812, 131>>, e |-> -52]>>,
    <<[s |-> 1, m |-> <<18529, 17357, 23865, 135>>, e |-> -109],
      [s |-> 1, m |-> <<7112, 12523, 7444, 132>>, e |-> -52]>>,
    <<[s |-> 1, m |-> <<21401, 13927, 3985, 133>>, e |-> -106],
      [s |-> 1, m |-> <<29571, 5517, 30971, 132>>, e |-> -52]>>,
    <<[s |-> 1, m |-> <<31597, 15110, 27289, 188>>, e |-> -106],
      [s |-> 1, m |-> <<2319, 23027, 21857, 133>>, e |-> -52]>>,
    <<[s |-> 1, m |-> <<28668, 9723, 21610, 245>>, e |-> -107],
      [s |-> 1, m |-> <<18423, 22244, 12872, 134>>, e |-> -52]>>,
    <<[s |-> 1, m |-> <<7377, 24671, 30965, 245>>, e |-> -112],
      [s |-> 1, m |-> <<20898, 26023, 4016, 135>>, e |-> -52]>>,
    <<[s |-> -1, m |-> <<28171, 4896, 3282, 208>>, e |-> -109],
      [s |-> 1, m |-> <<21275, 24573, 28058, 135>>, e |-> -52]>>,
    <<[s |-> -1, m |-> <<15630, 21599, 22856, 170>>, e |-> -106],
      [s |-> 1, m |-> <<23377, 8228, 19463, 136>>, e |-> -52]>>,
    <<[s |-> -1, m |-> <<27221, 6301, 958, 132>>, e |-> -110],
      [s |-> 1, m |-> <<12748, 216, 10999, 137>>, e |-> -52]>>,
    <<[s |-> -1, m |-> <<29718, 29611, 9358, 142>>, e |-> -106],
      [s |-> 1, m |-> <<11744, 23890, 2666, 138>>, e |-> -52]>>,
    <<[s |-> 1, m |-> <<21935, 21176, 20367, 134>>, e |-> -107],
      [s |-> 1, m |-> <<3665, 4427, 27235, 138>>, e |-> -52]>>,
    <<[s |-> -1, m |-> <<4936, 21835, 27735, 128>>, e |-> -107],
      [s |-> 1, m |-> <<20859, 30970, 19168, 139>>, e |-> -52]>>,
    <<[s |-> -1, m |-> <<12861, 11196, 32705, 248>>, e |-> -107],
      [s |-> 1, m |-> <<3562, 28953, 11236, 140>>, e |-> -52]>>,
    <<[s |-> 1, m |-> <<21439, 32294, 9776, 220>>, e |-> -107],
      [s |-> 1, m |-> <<19317, 22239, 3439, 141>>, e |-> -52]>>,
    <<[s |-> -1, m |-> <<27430, 27683, 26225, 182>>, e |-> -106],
      [s |-> 1, m |-> <<23764, 2056, 28546, 141>>, e |-> -52]>>,
    <<[s |-> 1, m |-> <<12128, 31860, 13276, 215>>, e |-> -106],
      [s |-> 1, m |-> <<14762, 25297, 21020, 142>>, e |-> -52]>>,
    <<[s |-> -1, m |-> <<14493, 5900, 7691, 255>>, e |-> -107],
      [s |-> 1, m |-> <<22813, 17913, 13632, 143>>, e |-> -52]>>,
    <<[s |-> 1, m |-> <<17293, 2381, 15621, 211>>, e |-> -107],
      [s |-> 1, m |-> <<3286, 4293, 6382, 144>>, e |-> -52]>>,
    <<[s |-> 1, m |-> <<1149, 25032, 26646, 131>>, e |-> -107],
      [s |-> 1, m |-> <<23702, 8955, 32038, 144>>, e |-> -52]>>,
    <<[s |-> 1, m |-> <<10388, 18257, 15351, 180>>, e |-> -106],
      [s |-> 1, m |-> <<25144, 23786, 25065, 145>>, e |-> -52]>>,
    <<[s |-> 1, m |-> <<18557, 25832, 30819, 186>>, e |-> -107],
      [s |-> 1, m |-> <<9791, 8037, 18233, 146>>, e |-> -52]>>,
    <<[s |-> 1, m |-> <<26610, 12351, 7342, 130>>, e |-> -107],
      [s |-> 1, m |-> <<31965, 19396, 11541, 147>>, e |-> -52]>>,
    <<[s |-> -1, m |-> <<2142, 32482, 25068, 181>>, e |-> -106],
      [s |-> 1, m |-> <<25473, 17386, 4991, 148>>, e |-> -52]>>,
    <<[s |-> 1, m |-> <<11057, 23059, 24453, 151>>, e |-> -107],
      [s |-> 1, m |-> <<24289, 27199, 31351, 148>>, e |-> -52]>>,
    <<[s |-> -1, m |-> <<16378, 13535, 1644, 233>>, e |-> -112],
      [s |-> 1, m |-> <<22928, 8629, 25087, 149>>, e |-> -52]>>,
    <<[s |-> 1, m |-> <<2740, 25624, 24073, 217>>, e |-> -107],
      [s |-> 1, m |-> <<779, 19912, 18966, 150>>, e |-> -52]>>,
    <<[s |-> 1, m |-> <<19343, 5021, 21066, 240>>, e |-> -109],
      [s |-> 1, m |-> <<12118, 21116, 12990, 151>>, e |-> -52]>>,
    <<[s |-> 1, m |-> <<11190, 7009, 13781, 154>>, e |-> -107],
      [s |-> 1, m |-> <<14101, 5219, 7160, 152>>, e |-> -52]>>,
    <<[s |-> 1, m |-> <<29772, 17752, 2055, 178>>, e |-> -107],
      [s |-> 1, m |-> <<22577, 30873, 1475, 153>>, e |-> -52]>>,
    <<[s |-> 1, m |-> <<30794, 15271, 29925, 254>>, e |-> -107],
      [s |-> 1, m |-> <<5887, 25800, 28706, 153>>, e |-> -52]>>,
    <<[s |-> -1, m |-> <<23300, 30492, 3584, 181>>, e |-> -107],
      [s |-> 1, m |-> <<8177, 16165, 23317, 154>>, e |-> -52]>>,
    <<[s |-> -1, m |-> <<20584, 6294, 11191, 146>>, e |-> -106],
      [s |-> 1, m |-> <<10699, 28277, 18076, 155>>, e |-> -52]>>,
    <<[s |-> -1, m |-> <<11662, 13986, 8160, 200>>, e |-> -106],
      [s |-> 1, m |-> <<22630, 23051, 12985, 156>>, e |-> -52]>>,
    <<[s |-> -1, m |-> <<14034, 32040, 18336, 142>>, e |-> -108],
      [s |-> 1, m |-> <<8183, 27083, 8044, 157>>, e |-> -52]>>,
    <<[s |-> -1, m |-> <<6933, 26524, 25702, 200>>, e |-> -106],
      [s |-> 1, m |-> <<10469, 1575, 3255, 158>>, e |-> -52]>>,
    <<[s |-> 1, m |-> <<19565, 20052, 32034, 172>>, e |-> -107],
      [s |-> 1, m |-> <<13346, 6180, 31385, 158>>, e |-> -52]>>,
    <<[s |-> -1, m |-> <<27018, 29776, 18817, 152>>, e |-> -106],
      [s |-> 1, m |-> <<28, 2393, 26900, 159>>, e |-> -52]>>,
    <<[s |-> -1, m |-> <<2395, 4143, 7741, 197>>, e |-> -110],
      [s |-> 1, m |-> <<11818, 17390, 22568, 160>>, e |-> -52]>>,
    <<[s |-> -1, m |-> <<6683, 20115, 12909, 225>>, e |-> -108],
      [s |-> 1, m |-> <<10391, 12961, 18391, 161>>, e |-> -52]>>,
    <<[s |-> 1, m |-> <<11281, 16773, 4021, 155>>, e |-> -111],
      [s |-> 1, m |-> <<2349, 16579, 14369, 162>>, e |-> -52]>>,
    <<[s |-> 1, m |-> <<25839, 30220, 6180, 179>>, e |-> -106],
      [s |-> 1, m |-> <<87, 23098, 10503, 163>>, e |-> -52]>>,
    <<[s |-> 1, m |-> <<889, 13634, 13191, 246>>, e |-> -109],
      [s |-> 1, m |-> <<15568, 27522, 6794, 164>>, e |-> -52]>>,
    <<[s |-> 1, m |-> <<4656, 32286, 32312, 159>>, e |-> -106],
      [s |-> 1, m |-> <<21470, 25007, 3243, 165>>, e |-> -52]>>,
    <<[s |-> 1, m |-> <<12208, 30453, 17210, 180>>, e |-> -108],
      [s |-> 1, m |-> <<10791, 10860, 32619, 165>>, e |-> -52]>>,
    <<[s |-> 1, m |-> <<24695, 22185, 30455, 152>>, e |-> -106],
      [s |-> 1, m |-> <<23821, 13307, 29386, 166>>, e |-> -52]>>,
    <<[s |-> -1, m |-> <<9102, 227, 20688, 252>>, e |-> -107],
      [s |-> 1, m |-> <<11431, 27962, 26313, 167>>, e |-> -52]>>,
    <<[s |-> -1, m |-> <<9033, 14631, 31539, 190>>, e |-> -107],
      [s |-> 1, m |-> <<26178, 17822, 23402, 168>>, e |-> -52]>>,
    <<[s |-> -1, m |-> <<14431, 31262, 31514, 198>>, e |-> -108],
      [s |-> 1, m |-> <<20354, 11578, 20653, 169>>, e |-> -52]>>,
    <<[s |-> -1, m |-> <<23798, 22774, 18715, 176>>, e |-> -107],
      [s |-> 1, m |-> <<4623, 5307, 18067, 170>>, e |-> -52]>>,
    <<[s |-> 1, m |-> <<22414, 12795, 21524, 153>>, e |-> -106],
      [s |-> 1, m |-> <<10202, 28010, 15644, 171>>, e |-> -52]>>,
    <<[s |-> 1, m |-> <<6917, 24341, 25308, 220>>, e |-> -108],
      [s |-> 1, m |-> <<18429, 10543, 13387, 172>>, e |-> -52]>>,
    <<[s |-> 1, m |-> <<21513, 17464, 3975, 131>>, e |-> -106],
      [s |-> 1, m |-> <<21545, 14992, 11295, 173>>, e |-> -52]>>,
    <<[s |-> 1, m |-> <<18154, 8243, 7701, 166>>, e |-> -112],
      [s |-> 1, m |-> <<18103, 5298, 9370, 174>>, e |-> -52]>>,
    <<[s |-> 1, m |-> <<16437, 22217, 19352, 161>>, e |-> -106],
      [s |-> 1, m |-> <<8520, 11098, 7612, 175>>, e |-> -52]>>,
    <<[s |-> -1, m |-> <<30367, 17202, 4393, 231>>, e |-> -107],
      [s |-> 1, m |-> <<23561, 29421, 6022, 176>>, e |-> -52]>>,
    <<[s |-> -1, m |-> <<19880, 30686, 20244, 225>>, e |-> -107],
      [s |-> 1, m |-> <<21893, 24692, 4602, 177>>, e |-> -52]>>,
    <<[s |-> -1, m |-> <<27054, 4695, 19938, 162>>, e |-> -107],
      [s |-> 1, m |-> <<17184, 27033, 3352, 178>>, e |-> -52]>>,
    <<[s |-> -1, m |-> <<22616, 28844, 15221, 158>>, e |-> -106],
      [s |-> 1, m |-> <<8741, 1194, 2274, 179>>, e |-> -52]>>,
    <<[s |-> 1, m |-> <<6500, 252, 17066, 184>>, e |-> -110],
      [s |-> 1, m |-> <<10611, 10393, 1367, 180>>, e |-> -52]>>,
    <<[s |-> -1, m |-> <<8744, 32444, 20414, 157>>, e |-> -106],
      [s |-> 1, m |-> <<15309, 19710, 633, 181>>, e |-> -52]>>,
    <<[s |-> -1, m |-> <<14722, 3689, 19126, 208>>, e |-> -109],
      [s |-> 1, m |-> <<23231, 27159, 73, 182>>, e |-> -52]>>,
    <<[s |-> -1, m |-> <<10734, 28891, 8126, 155>>, e |-> -109],
      [s |-> 1, m |-> <<6703, 30922, 32456, 182>>, e |-> -52]>>,
    <<[s |-> -1, m |-> <<2129, 10689, 28917, 134>>, e |-> -107],
      [s |-> 1, m |-> <<5252, 29347, 32247, 183>>, e |-> -52]>>,
    <<[s |-> -1, m |-> <<16079, 31924, 32145, 192>>, e |-> -108],
      [s |-> 1, m |-> <<24436, 20952, 32215, 184>>, e |-> -52]>>,
    <<[s |-> -1, m |-> <<32176, 278, 14635, 183>>, e |-> -107],
      [s |-> 1, m |-> <<372, 4427, 32361, 185>>, e |-> -52]>>,
    <<[s |-> -1, m |-> <<26250, 15531, 25800, 176>>, e |-> -107],
      [s |-> 1, m |-> <<26569, 11396, 32685, 186>>, e |-> -52]>>,
    <<[s |-> 1, m |-> <<21715, 15379, 29485, 132>>, e |-> -106],
      [s |-> 1, m |-> <<23871, 8124, 421, 188>>, e |-> -52]>>,
    <<[s |-> -1, m |-> <<9501, 29339, 19314, 217>>, e |-> -108],
      [s |-> 1, m |-> <<391, 26582, 1105, 189>>, e |-> -52]>>,
    <<[s |-> 1, m |-> <<16491, 10447, 13301, 167>>, e |-> -106],
      [s |-> 1, m |-> <<16690, 609, 1972, 190>>, e |-> -52]>>,
    <<[s |-> 1, m |-> <<27733, 22444, 12166, 175>>, e |-> -109],
      [s |-> 1, m |-> <<20066, 28062, 3020, 191>>, e |-> -52]>>,
    <<[s |-> -1, m |-> <<20290, 24423, 1812, 197>>, e |-> -107],
      [s |-> 1, m |-> <<6674, 10364, 4253, 192>>, e |-> -52]>>,
    <<[s |-> -1, m |-> <<14132, 25206, 9947, 155>>, e |-> -106],
      [s |-> 1, m |-> <<19987, 12953, 5670, 193>>, e |-> -52]>>,
    <<[s |-> -1, m |-> <<32542, 29747, 31248, 130>>, e |-> -107],
      [s |-> 1, m |-> <<18349, 3143, 7273, 194>>, e |-> -52]>>,
    <<[s |-> -1, m |-> <<22382, 12516, 20803, 166>>, e |-> -106],
      [s |-> 1, m |-> <<4845, 13961, 9062, 195>>, e |-> -52]>>,
    <<[s |-> 1, m |-> <<2560, 13853, 13725, 133>>, e |-> -106],
      [s |-> 1, m |-> <<26265, 13076, 11039, 196>>, e |-> -52]>>,
    <<[s |-> 1, m |-> <<27316, 993, 23743, 237>>, e |-> -107],
      [s |-> 1, m |-> <<8411, 1109, 13205, 197>>, e |-> -52]>>,
    <<[s |-> -1, m |-> <<26623, 14731, 22914, 173>>, e |-> -109],
      [s |-> 1, m |-> <<17548, 11626, 15560, 198>>, e |-> -52]>>,
    <<[s |-> 1, m |-> <<24388, 13286, 23053, 223>>, e |-> -108],
      [s |-> 1, m |-> <<30518, 12842, 18106, 199>>, e |-> -52]>>,
    <<[s |-> -1, m |-> <<15747, 20028, 9342, 152>>, e |-> -106],
      [s |-> 1, m |-> <<32710, 5923, 20844, 200>>, e |-> -52]>>,
    <<[s |-> -1, m |-> <<7721, 5848, 9954, 237>>, e |-> -110],
      [s |-> 1, m |-> <<17893, 24987, 23774, 201>>, e |-> -52]>>,
    <<[s |-> -1, m |-> <<14681, 31009, 4069, 225>>, e |-> -109],
      [s |-> 1, m |-> <<21007, 6032, 26899, 202>>, e |-> -52]>>,
    <<[s |-> -1, m |-> <<31146, 17897, 3340, 146>>, e |-> -106],
      [s |-> 1, m |-> <<20048, 16316, 30218, 203>>, e |-> -52]>>,
    <<[s |-> -1, m |-> <<3659, 11981, 10675, 174>>, e |-> -107],
      [s |-> 1, m |-> <<1978, 24980, 965, 205>>, e |-> -52]>>,
    <<[s |-> 1, m |-> <<20007, 22307, 16368, 141>>, e |-> -108],
      [s |-> 1, m |-> <<28816, 1351, 4678, 206>>, e |-> -52]>>,
    <<[s |-> 1, m |-> <<29627, 16916, 18647, 238>>, e |-> -109],
      [s |-> 1, m |-> <<8995, 13254, 8588, 207>>, e |-> -52]>>,
    <<[s |-> -1, m |-> <<8803, 17604, 5136, 190>>, e |-> -107],
      [s |-> 1, m |-> <<25957, 30395, 12697, 208>>, e |-> -52]>>,
    <<[s |-> 1, m |-> <<12757, 18372, 29211, 216>>, e |-> -107],
      [s |-> 1, m |-> <<11571, 22676, 17007, 209>>, e |-> -52]>>,
    <<[s |-> -1, m |-> <<15125, 10105, 28487, 141>>, e |-> -106],
      [s |-> 1, m |-> <<9565, 25724, 21518, 210>>, e |-> -52]>>,
    <<[s |-> 1, m |-> <<12754, 14812, 12486, 134>>, e |-> -106],
      [s |-> 1, m |-> <<13144, 9825, 26232, 211>>, e |-> -52]>>,
    <<[s |-> 1, m |-> <<23219, 23782, 9745, 163>>, e |-> -107],
      [s |-> 1, m |-> <<32191, 10995, 31149, 212>>, e |-> -52]>>,
    <<[s |-> -1, m |-> <<7604, 12061, 32566, 150>>, e |-> -107],
      [s |-> 1, m |-> <<29562, 32679, 3502, 214>>, e |-> -52]>>,
    <<[s |-> 1, m |-> <<13191, 9622, 27102, 224>>, e |-> -107],
      [s |-> 1, m |-> <<21421, 12981, 8830, 215>>, e |-> -52]>>,
    <<[s |-> -1, m |-> <<23034, 5539, 28221, 131>>, e |-> -106],
      [s |-> 1, m |-> <<13926, 21275, 14364, 216>>, e |-> -52]>>,
    <<[s |-> -1, m |-> <<11962, 11705, 3941, 174>>, e |-> -110],
      [s |-> 1, m |-> <<5627, 28830, 20106, 217>>, e |-> -52]>>,
    <<[s |-> -1, m |-> <<30272, 31565, 4152, 133>>, e |-> -106],
      [s |-> 1, m |-> <<22842, 7114, 26058, 218>>, e |-> -52]>>,
    <<[s |-> -1, m |-> <<4916, 29019, 23504, 198>>, e |-> -109],
      [s |-> 1, m |-> <<24135, 26102, 32219, 219>>, e |-> -52]>>,
    <<[s |-> -1, m |-> <<2613, 22193, 15241, 143>>, e |-> -106],
      [s |-> 1, m |-> <<1610, 24898, 5824, 221>>, e |-> -52]>>,
    <<[s |-> 1, m |-> <<24013, 5311, 32604, 167>>, e |-> -108],
      [s |-> 1, m |-> <<16850, 8343, 12410, 222>>, e |-> -52]>>,
    <<[s |-> -1, m |-> <<6316, 29989, 30703, 141>>, e |-> -106],
      [s |-> 1, m |-> <<7689, 14254, 19209, 223>>, e |-> -52]>>,
    <<[s |-> 1, m |-> <<3251, 24926, 15032, 155>>, e |-> -108],
      [s |-> 1, m |-> <<21148, 15114, 26223, 224>>, e |-> -52]>>,
    <<[s |-> 1, m |-> <<32148, 14655, 3273, 247>>, e |-> -107],
      [s |-> 1, m |-> <<20602, 16383, 685, 226>>, e |-> -52]>>,
    <<[s |-> 1, m |-> <<22956, 8722, 575, 167>>, e |-> -107],
      [s |-> 1, m |-> <<20811, 23727, 8132, 227>>, e |-> -52]>>,
    <<[s |-> 1, m |-> <<6759, 28828, 14012, 158>>, e |-> -109],
      [s |-> 1, m |-> <<26549, 10253, 15798, 228>>, e |-> -52]>>,
    <<[s |-> 1, m |-> <<6504, 22820, 11441, 187>>, e |-> -109],
      [s |-> 1, m |-> <<4201, 14815, 23683, 229>>, e |-> -52]>>,
    <<[s |-> -1, m |-> <<13778, 1945, 10338, 132>>, e |-> -107],
      [s |-> 1, m |-> <<17402, 10939, 31789, 230>>, e |-> -52]>>,
    <<[s |-> -1, m |-> <<31343, 32767, 13684, 253>>, e |-> -107],
      [s |-> 1, m |-> <<2428, 5135, 7349, 232>>, e |-> -52]>>,
    <<[s |-> -1, m |-> <<10569, 28907, 14008, 128>>, e |-> -106],
      [s |-> 1, m |-> <<2546, 4123, 15900, 233>>, e |-> -52]>>,
    <<[s |-> 1, m |-> <<1959, 19578, 3606, 165>>, e |-> -108],
      [s |-> 1, m |-> <<9351, 14839, 24675, 234>>, e |-> -52]>>,
    <<[s |-> -1, m |-> <<8719, 16512, 18040, 148>>, e |-> -107],
      [s |-> 1, m |-> <<920, 11667, 908, 236>>, e |-> -52]>>,
    <<[s |-> 1, m |-> <<4780, 11139, 26947, 242>>, e |-> -107],
      [s |-> 1, m |-> <<12933, 1974, 10136, 237>>, e |-> -52]>>,
    <<[s |-> 1, m |-> <<27467, 22530, 26982, 161>>, e |-> -107],
      [s |-> 1, m |-> <<13408, 26115, 19591, 238>>, e |-> -52]>>,
    <<[s |-> -1, m |-> <<15903, 3944, 21636, 150>>, e |-> -107],
      [s |-> 1, m |-> <<7007, 26359, 29276, 239>>, e |-> -52]>>,
    <<[s |-> -1, m |-> <<3529, 30350, 10980, 201>>, e |-> -107],
      [s |-> 1, m |-> <<8489, 10731, 6424, 241>>, e |-> -52]>>,
    <<[s |-> 1, m |-> <<2259, 16501, 22545, 165>>, e |-> -108],
      [s |-> 1, m |-> <<16374, 20246, 16571, 242>>, e |-> -52]>>,
    <<[s |-> 1, m |-> <<29297, 9018, 6065, 158>>, e |-> -107],
      [s |-> 1, m |-> <<19587, 30606, 26951, 243>>, e |-> -52]>>,
    <<[s |-> -1, m |-> <<4592, 8103, 23626, 255>>, e |-> -107],
      [s |-> 1, m |-> <<4314, 17737, 4798, 245>>, e |-> -52]>>,
    <<[s |-> -1, m |-> <<29821, 17478, 14947, 237>>, e |-> -107],
      [s |-> 1, m |-> <<26609, 23324, 15648, 246>>, e |-> -52]>>,
    <<[s |-> 1, m |-> <<8200, 852, 3825, 246>>, e |-> -107],
      [s |-> 1, m |-> <<23079, 23746, 26735, 247>>, e |-> -52]>>,
    <<[s |-> 1, m |-> <<27442, 1875, 11859, 161>>, e |-> -107],
      [s |-> 1, m |-> <<14999, 28375, 5292, 249>>, e |-> -52]>>,
    <<[s |-> 1, m |-> <<1518, 25507, 4772, 211>>, e |-> -107],
      [s |-> 1, m |-> <<17728, 14044, 16857, 250>>, e |-> -52]>>,
    <<[s |-> -1, m |-> <<25581, 18551, 24299, 241>>, e |-> -107],
      [s |-> 1, m |-> <<15892, 23353, 28662, 251>>, e |-> -52]>>,
    <<[s |-> 1, m |-> <<19869, 6947, 9453, 188>>, e |-> -108],
      [s |-> 1, m |-> <<4312, 829, 7942, 253>>, e |-> -52]>>,
    <<[s |-> 1, m |-> <<19593, 705, 5893, 152>>, e |-> -110],
      [s |-> 1, m |-> <<29169, 22302, 20232, 254>>, e |-> -52]>>>>

\* 0x1.69555p-1 = OFF: the magnitudes of 53 bits from Log_Off on, taken at
\* exponent -53, lie in the interval [OFF, 2 * OFF) of z, whose log is summed
Log_Off == <<0, 0, 21844, 180>>

\* the fraction bits of OFF
Log_OffFraction == <<0, 0, 21844, 52>>

\* log_inline: the exponent k with z = x * 2^-k in [OFF, 2 * OFF), for a
\* magnitude m of 53 bits and e the exponent of its first bit
LogK[m \in Limbs, e \in Int] == IF BCmp[m, Log_Off] >= 0 THEN e + 1 ELSE e

\* log_inline: the subinterval i of z, the top 7 bits of the fraction of z
\* counted from that of OFF
LogI[m \in Limbs] ==
    BToInt[BShr[BSub[m, IF BCmp[m, Log_Off] >= 0 THEN Log_Off ELSE Log_OffFraction],
                45]]

\* log_inline(ix, &tail): <<y, tail>> with y + tail near log(x); by the steps r
\* (near z/c - 1), t1, t2, lo1 .. lo4, ar = A[0] * r, ar2, hi and lo
Log_y[hi \in Dyadics, lo \in Dyadics, y \in Dyadics] ==
    <<y, FAdd[FSub[hi, y], lo]>>

Log_lo[hi \in Dyadics, lo \in Dyadics] == Log_y[hi, lo, FAdd[hi, lo]]

Log_hi[r \in Dyadics, lo123 \in Dyadics, t2 \in Dyadics, ar2 \in Dyadics, hi \in Dyadics] ==
    Log_lo[hi,
           FMA[FMul[r, ar2],
               FMA[ar2, FMA[FMA[r, PowLogData.poly[7], PowLogData.poly[6]], ar2,
                            FMA[r, PowLogData.poly[5], PowLogData.poly[4]]],
                   FMA[r, PowLogData.poly[3], PowLogData.poly[2]]],
               FAdd[lo123, FAdd[FSub[t2, hi], ar2]]]]

Log_ar2[r \in Dyadics, lo12 \in Dyadics, t2 \in Dyadics, ar \in Dyadics, ar2 \in Dyadics] ==
    Log_hi[r, FAdd[lo12, FMA[ar, r, XNeg[ar2]]], t2, ar2, FAdd[t2, ar2]]

Log_t2[r \in Dyadics, t1 \in Dyadics, lo1 \in Dyadics, t2 \in Dyadics, ar \in Dyadics] ==
    Log_ar2[r, FAdd[lo1, FAdd[FSub[t1, t2], r]], t2, ar, FMul[r, ar]]

Log_r[r \in Dyadics, t1 \in Dyadics, lo1 \in Dyadics] ==
    Log_t2[r, t1, lo1, FAdd[t1, r], FMul[PowLogData.poly[1], r]]

Log_z[z \in Dyadics, kd \in Dyadics, i \in Nat] ==
    Log_r[FMA[z, PowLogTab[i + 1][1], XNeg[One]],
          FMA[kd, PowLogData.ln2hi, PowLogTab[i + 1][2]],
          FMA[kd, PowLogData.ln2lo, PowLogTab[i + 1][3]]]

LogInline_k[x \in Dyadics, k \in Int] ==
    Log_z[[x EXCEPT !.e = @ - k], FromInt[k], LogI[x.m]]

\* for x > 0 with a magnitude of 53 bits
LogInline[x \in Dyadics] == LogInline_k[x, LogK[x.m, x.e + MantBits - 1]]

\* specialcase(tmp, sbits, ki): scale + scale * tmp where it may overflow or
\* underflow, for scale = s * 2^q.  For k >= 0 it is computed 2^1009 times
\* smaller and multiplied back, which overflows (OverflowError) past the
\* largest double.
Special_big[y \in Dyadics] ==
    IF y.e + 1009 + MantBits > 1024
    THEN Raise("OverflowError")
    ELSE Return([y EXCEPT !.e = @ + 1009])

\* For k < 0 it is computed 2^1022 times larger; a result below 1 is to become
\* subnormal, and is first rounded as the subnormal will be (through the sums hi
\* and lo with 1), then multiplied by 2^-1022.
Special_hi[y \in Dyadics, lo \in Dyadics, hi \in Dyadics] ==
    FSub[FAdd[FAdd[FAdd[FSub[One, hi], y], lo], hi], One]

Special_y[scale \in Dyadics, st \in Dyadics, y \in Dyadics] ==
    Return(FMul[P2[-1022],
                IF Less[XAbs[y], One]
                THEN Special_hi[y, FAdd[FSub[scale, y], st], FAdd[One, y]]
                ELSE y])

Special_scale[scale \in Dyadics, st \in Dyadics] ==
    Special_y[scale, st, FAdd[scale, st]]

SpecialCase[tmp \in Dyadics, s \in Dyadics, q \in Int] ==
    IF q >= 0
    THEN Special_big[FMA[XMul[s, P2[q - 1009]], tmp, XMul[s, P2[q - 1009]]]]
    ELSE Special_scale[XMul[s, P2[q + 1022]], FMul[tmp, XMul[s, P2[q + 1022]]]]

\* exp_inline(x, xtail, 0): the exponential of x + xtail; by the steps kd (x *
\* 128/ln 2 rounded to an int k by adding and subtracting shift), r (x less k *
\* ln 2/128, then with xtail), r2, tmp (near exp(r) - 1 with the tail of the
\* table), and the scale 2^(k/128) = ExpTab[(k % 128) + 1][2] * 2^(k \div 128)
Exp_tmp[tmp \in Dyadics, k \in Int, special \in BOOLEAN] ==
    IF special
    THEN SpecialCase[tmp, ExpTab[(k % 128) + 1][2], k \div 128]
    ELSE Return(FMA[tmp, XMul[ExpTab[(k % 128) + 1][2], P2[k \div 128]],
                    XMul[ExpTab[(k % 128) + 1][2], P2[k \div 128]]])

Exp_r2[r \in Dyadics, r2 \in Dyadics, k \in Int, special \in BOOLEAN] ==
    Exp_tmp[FMA[FMA[r, ExpData.poly[4], ExpData.poly[3]], FMul[r2, r2],
                FMA[FMA[r, ExpData.poly[2], ExpData.poly[1]], r2,
                    FAdd[r, ExpTab[(k % 128) + 1][1]]]],
            k, special]

Exp_r[r \in Dyadics, k \in Int, special \in BOOLEAN] ==
    Exp_r2[r, FMul[r, r], k, special]

Exp_kd[x \in Dyadics, xtail \in Dyadics, kd \in Dyadics, special \in BOOLEAN] ==
    Exp_r[FAdd[xtail, FMA[kd, ExpData.negln2loN, FMA[kd, ExpData.negln2hiN, x]]],
          FFloor[kd], special]

\* |x| < 2^-54 gives 1 + x; |x| >= 1024 overflows (OverflowError) or underflows
\* to 0; 512 <= |x| < 1024 takes specialcase
ExpInline[x \in Dyadics, xtail \in Dyadics] ==
    IF Less[XAbs[x], P2[-54]] THEN Return(FAdd[One, x])
    ELSE IF ~Less[XAbs[x], P2[10]]
    THEN IF x.s < 0 THEN Return(Zero) ELSE Raise("OverflowError")
    ELSE Exp_kd[x, xtail, FSub[FMA[x, ExpData.invln2N, ExpData.shift], ExpData.shift],
                ~Less[XAbs[x], P2[9]]]

\* pow(x, y) of the C library for a double x > 0 and a double y # 0: for |y| <
\* 2^-65 it is 1 + y or 1 - y (which round to 1), for |y| >= 2^63 an overflow
\* or an underflow to 0, and 1 for x = 1 in both cases; else it is
\* exp(y * log(x)), the product in the two parts ehi + elo
CPow_ehi[y \in Dyadics, hi \in Dyadics, lo \in Dyadics, ehi \in Dyadics] ==
    ExpInline[ehi, FMA[y, lo, FMA[y, hi, XNeg[ehi]]]]

CPow_log[y \in Dyadics, l \in Seq(Dyadics)] ==
    CPow_ehi[y, l[1], l[2], FMul[y, l[1]]]

CPow[x \in Dyadics, y \in Dyadics] ==
    IF Less[XAbs[y], P2[-65]]
    THEN IF x = One THEN Return(One)
         ELSE Return(IF Less[One, x] THEN FAdd[One, y] ELSE FSub[One, y])
    ELSE IF ~Less[XAbs[y], P2[63]]
    THEN IF x = One THEN Return(One)
         ELSE IF Less[One, x] = (y.s > 0) THEN Raise("OverflowError")
         ELSE Return(Zero)
    ELSE CPow_log[y, LogInline[Normal[x]]]

\* a double w is an int, an odd int
IsInt[w \in Dyadics] == w.e >= 0 \/ BShl[BShr[w.m, -w.e], -w.e] = w.m
IsOdd[w \in Dyadics] ==
    /\ w.s # 0
    /\ w.e <= 0
    /\ BShl[BShr[w.m, -w.e], -w.e] = w.m
    /\ BShr[w.m, -w.e][1] % 2 = 1

\* the result r of pow for the magnitude of a negative base, with its sign
Negated[r \in Outcomes, odd \in BOOLEAN] ==
    IF odd /\ r.kind = "return" THEN Return(XNeg[r.value]) ELSE r

\* v ** w for doubles v and w, an int operand converted by FromInt first: the
\* outcome is the double returned, or ZeroDivisionError for 0 to a negative
\* power, or OverflowError.  A negative v takes a w that is an int (with another
\* w the result would be a complex number).
FPow[v \in Dyadics, w \in Dyadics] ==
    IF w.s = 0 THEN Return(One)
    ELSE IF v.s = 0
    THEN IF w.s < 0 THEN Raise("ZeroDivisionError") ELSE Return(Zero)
    ELSE IF v.s < 0
    THEN CASE IsInt[w] ->
              IF XAbs[v] = One
              THEN Negated[Return(One), IsOdd[w]]
              ELSE Negated[CPow[XAbs[v], w], IsOdd[w]]
    ELSE IF v = One THEN Return(One)
    ELSE CPow[v, w]

\* lr * p and span * p + lr for the outcome p of a **: an exception raised by the ** is
\* the outcome of the whole expression
TimesPow[lr \in Dyadics, p \in Outcomes] ==
    IF p.kind = "raise" THEN p ELSE Return(FMul[lr, p.value])

PlusTimesPow[lr \in Dyadics, span \in Dyadics, p \in Outcomes] ==
    IF p.kind = "raise" THEN p ELSE Return(FAdd[FMul[span, p.value], lr])

---------------------------------------------------------------------------
(* Input sets the constructors draw from.                                  *)

MaxLRs == {One, F[9, 10]}
MinLRs == {Zero, F[3, 10], One}
Gammas == {Half, F[1, 10]}
Powers == {One, Two}
PctStarts == {Zero, F[3, 10], Half, One}
IterCounts == 0..MaxIters
TMults == 0..MaxTMult

RECURSIVE SeqsUpTo(_, _)
SeqsUpTo(S, n) ==
    IF n = 0 THEN {<<>>}
    ELSE LET shorter == SeqsUpTo(S, n - 1)
         IN  shorter \cup {Append(s, x) : s \in shorter, x \in S}

MilestoneLists == SeqsUpTo(0..MaxMilestone, MaxMilestones)

\* MultiStepLR.max_iters is stored and never read: it keeps its default
DefaultMaxIters == 100000

---------------------------------------------------------------------------
(* __call__ of each class, as a function of the fields and the argument.   *)

\* (iteration - warmup_iters) / (max_iters - warmup_iters), divisor # 0
\* variant of DecayRatio: the numerator without the warm-up offset
DecayRatio_NoOffset(s, t) ==
    F[t, s.max_iters - s.warmup_iters]

DecayRatio(s, t) ==
    F[t - s.warmup_iters, s.max_iters - s.warmup_iters]

\* 0.5 * (1.0 + math.cos(math.pi * decay_ratio))
\* variant of Coeff: the cosine subtracted
Coeff_MinusCos(decay_ratio) ==
    FMul[Half, FSub[One, Cos[FMul[Pi, decay_ratio]]]]

Coeff(decay_ratio) ==
    FMul[Half, FAdd[One, Cos[FMul[Pi, decay_ratio]]]]

CosineScheduler_call(s, t) ==
    IF t < s.warmup_iters
    THEN Return(FDiv[FMul[s.max_lr, FromInt[t]], FromInt[s.warmup_iters]])
    ELSE IF t > s.max_iters
    THEN Return(s.min_lr)
    ELSE IF s.max_iters - s.warmup_iters = 0
    THEN Raise("ZeroDivisionError")
    ELSE LET decay_ratio == DecayRatio(s, t)
         IN  IF ~(Leq[Zero, decay_ratio] /\ Leq[decay_ratio, One])
             THEN Raise("AssertionError")
             ELSE Return(FAdd[s.min_lr,
                              FMul[Coeff(decay_ratio), FSub[s.max_lr, s.min_lr]]])

ExponentialScheduler_call(s, t) ==
    TimesPow[s.max_lr, FPow[s.gamma, FromInt[t]]]

ConstantLR_call(s, t) ==
    Return(s.max_lr)

\* iteration // max_iters
\* variant of StepIndex: the step taken one iteration early
StepIndex_OffByOne(s, t) == (t + 1) \div s.max_iters

StepIndex(s, t) == t \div s.max_iters

StepLR_call(s, t) ==
    IF s.max_iters = 0
    THEN Raise("ZeroDivisionError")
    ELSE TimesPow[s.max_lr, FPow[s.gamma, FromInt[StepIndex(s, t)]]]

\* sum([iteration >= m for m in milestones])
\* variant of MilestonesPassed: iteration > m
RECURSIVE MilestonesPassed_Strict(_, _)
MilestonesPassed_Strict(ms, t) ==
    IF ms = <<>> THEN 0
    ELSE (IF t > Head(ms) THEN 1 ELSE 0) + MilestonesPassed_Strict(Tail(ms), t)

RECURSIVE MilestonesPassed(_, _)
MilestonesPassed(ms, t) ==
    IF ms = <<>> THEN 0
    ELSE (IF t >= Head(ms) THEN 1 ELSE 0) + MilestonesPassed(Tail(ms), t)

MultiStepLR_call(s, t) ==
    TimesPow[s.max_lr, FPow[s.gamma, FromInt[MilestonesPassed(s.milestones, t)]]]

LinearLR_call(s, t) ==
    IF s.max_iters = 0
    THEN Raise("ZeroDivisionError")
    ELSE Return(FMul[s.max_lr, FSub[One, F[t, s.max_iters]]])

PolynomialLR_call(s, t) ==
    IF s.max_iters = 0
    THEN Raise("ZeroDivisionError")
    ELSE PlusTimesPow[s.min_lr, FSub[s.max_lr, s.min_lr],
                      FPow[FSub[One, F[t, s.max_iters]], s.power]]

\* math.floor(1 + iteration / (2 * max_iters))
\* variant of Cycle: without the 1 +
Cycle_NoOffset(s, t) == FFloor[F[t, 2 * s.max_iters]]

Cycle(s, t) == FFloor[FAdd[One, F[t, 2 * s.max_iters]]]

CyclicLR_call(s, t) ==
    IF s.max_iters = 0
    THEN Raise("ZeroDivisionError")
    ELSE LET cycle == Cycle(s, t)
             x == FAbs[FAdd[FSub[F[t, s.max_iters], FromInt[2 * cycle]], One]]
         IN  Return(FAdd[s.min_lr,
                         FMul[FSub[s.max_lr, s.min_lr], Max0[FSub[One, x]]]])

\* pct_start * max_iters
OneCycle_junction(s) == FMul[s.pct_start, FromInt[s.max_iters]]

\* min_lr + (max_lr - min_lr) * (iteration / (pct_start * max_iters)), divisor # 0
OneCycle_rising(s, t) ==
    FAdd[s.min_lr,
         FMul[FSub[s.max_lr, s.min_lr], FDiv[FromInt[t], OneCycle_junction(s)]]]

\* max_lr - (max_lr - min_lr) * ((iteration - pct_start * max_iters)
\*                               / ((1 - pct_start) * max_iters)), divisor # 0
\* variant of OneCycle_falling: the numerator without the offset of the junction
OneCycle_falling_NoOffset(s, t) ==
    FSub[s.max_lr,
         FMul[FSub[s.max_lr, s.min_lr],
              FDiv[FromInt[t], FMul[FSub[One, s.pct_start], FromInt[s.max_iters]]]]]

OneCycle_falling(s, t) ==
    FSub[s.max_lr,
         FMul[FSub[s.max_lr, s.min_lr],
              FDiv[FSub[FromInt[t], OneCycle_junction(s)],
                   FMul[FSub[One, s.pct_start], FromInt[s.max_iters]]]]]

OneCycleLR_call(s, t) ==
    IF s.max_iters = 0
    THEN Raise("ZeroDivisionError")
    ELSE IF Leq[F[t, s.max_iters], s.pct_start]
    THEN IF OneCycle_junction(s) = Zero
         THEN Raise("ZeroDivisionError")
         ELSE Return(OneCycle_rising(s, t))
    ELSE IF FMul[FSub[One, s.pct_start], FromInt[s.max_iters]] = Zero
         THEN Raise("ZeroDivisionError")
         ELSE Return(OneCycle_falling(s, t))

\* min_lr + (max_lr - min_lr) * (1 + math.cos(math.pi * pos / cycle)) / 2
WR_Formula(s, pos, cycle) ==
    FAdd[s.min_lr,
         FDiv[FMul[FSub[s.max_lr, s.min_lr],
                   FAdd[One, Cos[FDiv[FMul[Pi, FromInt[pos]], FromInt[cycle]]]]],
              Two]]

\* the return statement of CosineAnnealingWarmRestarts.__call__: it reads T_cur
\* and self.warmup_steps, not what the loop left in iteration and T_i
\* variant of WR_ReturnValue: the position within the cycle the loop walked to
WR_ReturnValue_WalkedCycle(s, it, ti, tcur) == WR_Formula(s, it, ti)

WR_ReturnValue(s, it, ti, tcur) == WR_Formula(s, tcur, s.warmup_steps)

\* one pass of the loop body: iteration -= T_i; T_i *= self.T_mult
\* variant of WR_LoopBody: the cycle length kept in self.warmup_steps
WR_LoopBody_FieldAsCycle(s, it, ti) ==
    [self |-> [s EXCEPT !.warmup_steps = ti * s.T_mult],
     iteration |-> it - ti, T_i |-> ti * s.T_mult]

WR_LoopBody(s, it, ti) ==
    [self |-> s, iteration |-> it - ti, T_i |-> ti * s.T_mult]

---------------------------------------------------------------------------
(* State machine.                                                          *)

Init ==
    /\ cls = "none"
    /\ self = <<>>
    /\ pc = "idle"
    /\ arg = 0
    /\ iteration = 0
    /\ T_i = 0
    /\ T_cur = 0
    /\ result = NoResult
    /\ built = <<>>
    /\ again = FALSE

\* the dataclass-generated __init__: stores the fields, checks nothing
Construct(c, fields) ==
    /\ cls' = c
    /\ self' = fields
    /\ built' = fields
    /\ UNCHANGED <<pc, arg, iteration, T_i, T_cur, result, again>>

New_CosineScheduler ==
    /\ cls = "none"
    /\ \E max_lr \in MaxLRs, min_lr \in MinLRs, warmup_iters \in IterCounts,
          max_iters \in IterCounts :
            Construct("CosineScheduler",
                      [max_lr |-> max_lr, min_lr |-> min_lr,
                       warmup_iters |-> warmup_iters, max_iters |-> max_iters])

New_ExponentialScheduler ==
    /\ cls = "none"
    /\ \E max_lr \in MaxLRs, gamma \in Gammas :
            Construct("ExponentialScheduler", [max_lr |-> max_lr, gamma |-> gamma])

New_ConstantLR ==
    /\ cls = "none"
    /\ \E max_lr \in MaxLRs :
            Construct("ConstantLR", [max_lr |-> max_lr])

New_StepLR ==
    /\ cls = "none"
    /\ \E max_lr \in MaxLRs, max_iters \in IterCounts, gamma \in Gammas :
            Construct("StepLR",
                      [max_lr |-> max_lr, max_iters |-> max_iters, gamma |-> gamma])

New_MultiStepLR ==
    /\ cls = "none"
    /\ \E max_lr \in MaxLRs, gamma \in Gammas, milestones \in MilestoneLists :
            Construct("MultiStepLR",
                      [max_lr |-> max_lr, max_iters |-> DefaultMaxIters,
                       gamma |-> gamma, milestones |-> milestones])

New_LinearLR ==
    /\ cls = "none"
    /\ \E max_lr \in MaxLRs, max_iters \in IterCounts :
            Construct("LinearLR", [max_lr |-> max_lr, max_iters |-> max_iters])

New_PolynomialLR ==
    /\ cls = "none"
    /\ \E max_lr \in MaxLRs, min_lr \in MinLRs, max_iters \in IterCounts,
          power \in Powers :
            Construct("PolynomialLR",
                      [max_lr |-> max_lr, min_lr |-> min_lr,
                       max_iters |-> max_iters, power |-> power])

New_CyclicLR ==
    /\ cls = "none"
    /\ \E max_lr \in MaxLRs, min_lr \in MinLRs, max_iters \in IterCounts :
            Construct("CyclicLR",
                      [max_lr |-> max_lr, min_lr |-> min_lr, max_iters |-> max_iters])

New_OneCycleLR ==
    /\ cls = "none"
    /\ \E max_lr \in MaxLRs, min_lr \in MinLRs, max_iters \in IterCounts,
          pct_start \in PctStarts :
            Construct("OneCycleLR",
                      [max_lr |-> max_lr, min_lr |-> min_lr,
                       max_iters |-> max_iters, pct_start |-> pct_start])

New_CosineAnnealingWarmRestarts ==
    /\ cls = "none"
    /\ \E max_lr \in MaxLRs, min_lr \in MinLRs, warmup_steps \in IterCounts,
          T_mult \in TMults :
            Construct("CosineAnnealingWarmRestarts",
                      [max_lr |-> max_lr, min_lr |-> min_lr,
                       warmup_steps |-> warmup_steps, T_mult |-> T_mult])

\* what a completed call leaves behind
Completed(r) ==
    /\ result' = r
    /\ again' = (result.kind # "none")

\* a call of a __call__ that is one expression or a few branches: it runs to its
\* outcome r in one step
Called(t, r) ==
    /\ arg' = t
    /\ Completed(r)
    /\ UNCHANGED <<cls, self, pc, iteration, T_i, T_cur, built>>

Call_CosineScheduler ==
    /\ cls = "CosineScheduler"
    /\ pc = "idle"
    /\ \E t \in Iterations : Called(t, CosineScheduler_call(self, t))

Call_ExponentialScheduler ==
    /\ cls = "ExponentialScheduler"
    /\ pc = "idle"
    /\ \E t \in Iterations : Called(t, ExponentialScheduler_call(self, t))

Call_ConstantLR ==
    /\ cls = "ConstantLR"
    /\ pc = "idle"
    /\ \E t \in Iterations : Called(t, ConstantLR_call(self, t))

Call_StepLR ==
    /\ cls = "StepLR"
    /\ pc = "idle"
    /\ \E t \in Iterations : Called(t, StepLR_call(self, t))

Call_MultiStepLR ==
    /\ cls = "MultiStepLR"
    /\ pc = "idle"
    /\ \E t \in Iterations : Called(t, MultiStepLR_call(self, t))

Call_LinearLR ==
    /\ cls = "LinearLR"
    /\ pc = "idle"
    /\ \E t \in Iterations : Called(t, LinearLR_call(self, t))

Call_PolynomialLR ==
    /\ cls = "PolynomialLR"
    /\ pc = "idle"
    /\ \E t \in Iterations : Called(t, PolynomialLR_call(self, t))

Call_CyclicLR ==
    /\ cls = "CyclicLR"
    /\ pc = "idle"
    /\ \E t \in Iterations : Called(t, CyclicLR_call(self, t))

Call_OneCycleLR ==
    /\ cls = "OneCycleLR"
    /\ pc = "idle"
    /\ \E t \in Iterations : Called(t, OneCycleLR_call(self, t))

\* CosineAnnealingWarmRestarts.__call__ up to the loop:
\* T_cur = iteration % self.warmup_steps; T_i = self.warmup_steps
WR_Enter ==
    /\ cls = "CosineAnnealingWarmRestarts"
    /\ pc = "idle"
    /\ \E t \in Iterations :
        /\ arg' = t
        /\ IF self.warmup_steps = 0
           THEN /\ Completed(Raise("ZeroDivisionError"))
                /\ UNCHANGED <<pc, iteration, T_i, T_cur>>
           ELSE /\ T_cur' = t % self.warmup_steps
                /\ T_i' = self.warmup_steps
                /\ iteration' = t
                /\ pc' = "loop"
                /\ UNCHANGED <<result, again>>
    /\ UNCHANGED <<cls, self, built>>

\* while iteration >= T_i: the condition holds, the body is entered
WR_LoopTest ==
    /\ pc = "loop"
    /\ iteration >= T_i
    /\ pc' = "body"
    /\ UNCHANGED <<cls, self, arg, iteration, T_i, T_cur, result, built, again>>

\* the body, and back to the condition
WR_LoopStep ==
    /\ pc = "body"
    /\ LET n == WR_LoopBody(self, iteration, T_i)
       IN  /\ self' = n.self
           /\ iteration' = n.iteration
           /\ T_i' = n.T_i
    /\ pc' = "loop"
    /\ UNCHANGED <<cls, arg, T_cur, result, built, again>>

\* the loop's exit and the return; the locals end with the call
WR_Return ==
    /\ pc = "loop"
    /\ iteration < T_i
    /\ Completed(Return(WR_ReturnValue(self, iteration, T_i, T_cur)))
    /\ pc' = "idle"
    /\ iteration' = 0
    /\ T_i' = 0
    /\ T_cur' = 0
    /\ UNCHANGED <<cls, self, arg, built>>

Next ==
    \/ New_CosineScheduler
    \/ New_ExponentialScheduler
    \/ New_ConstantLR
    \/ New_StepLR
    \/ New_MultiStepLR
    \/ New_LinearLR
    \/ New_PolynomialLR
    \/ New_CyclicLR
    \/ New_OneCycleLR
    \/ New_CosineAnnealingWarmRestarts
    \/ Call_CosineScheduler
    \/ Call_ExponentialScheduler
    \/ Call_ConstantLR
    \/ Call_StepLR
    \/ Call_MultiStepLR
    \/ Call_LinearLR
    \/ Call_PolynomialLR
    \/ Call_CyclicLR
    \/ Call_OneCycleLR
    \/ WR_Enter
    \/ WR_LoopTest
    \/ WR_LoopStep
    \/ WR_Return

Spec == Init /\ [][Next]_vars

\* a call that has started runs on: the interpreter executes the loop and the
\* return without waiting for anything
FairSpec ==
    Spec /\ WF_vars(WR_LoopTest) /\ WF_vars(WR_LoopStep) /\ WF_vars(WR_Return)

---------------------------------------------------------------------------
(* Claims.                                                                 *)

IsCosine == cls = "CosineScheduler"
IsWR == cls = "CosineAnnealingWarmRestarts"

\* the last call has completed and returned a rate
Returned == pc = "idle" /\ result.kind = "return"

\* 2^k
TwoTo(k) == [s |-> 1, m |-> <<1>>, e |-> k]

\* the larger of |max_lr| and |min_lr|
Scale(s) ==
    IF Leq[XAbs[s.min_lr], XAbs[s.max_lr]] THEN XAbs[s.max_lr] ELSE XAbs[s.min_lr]

\* |x - y| <= tol, exactly
Within(x, y, tol) == Leq[XAbs[XSub[x, y]], tol]

\* min_lr + (max_lr - min_lr) as the floats compute it: the rate where a
\* schedule's formula reaches its top
Top(s) == FAdd[s.min_lr, FSub[s.max_lr, s.min_lr]]

\* how far the two roundings of Top can take it from max_lr
TopTol(s) == XMul[TwoTo(-51), Scale(s)]

\* C1: a CosineScheduler with max_iters <= warmup_iters is rejected by its
\* construction: no such scheduler ever exists to be called.
C1_InconsistentCosineRejected ==
    ~(IsCosine /\ self.max_iters <= self.warmup_iters)

\* C2: every call of CosineAnnealingWarmRestarts that has reached its loop
\* (warmup_steps >= 1, any T_mult >= 0, any iteration >= 0) leaves it and returns.
C2_QueryTerminates == (pc # "idle") ~> (pc = "idle")

\* C3: a CosineScheduler with 0 <= warmup_iters < max_iters never raises, and in
\* the cosine branch (warmup_iters <= iteration <= max_iters) the decay ratio
\* lies in [0, 1].
C3_CosineNeverRaises ==
    (IsCosine /\ self.warmup_iters < self.max_iters /\ result.kind # "none") =>
        /\ result.kind = "return"
        /\ (self.warmup_iters <= arg /\ arg <= self.max_iters) =>
              /\ Leq[Zero, DecayRatio(self, arg)]
              /\ Leq[DecayRatio(self, arg), One]

C3_Witness ==
    /\ IsCosine
    /\ self.warmup_iters < arg
    /\ arg < self.max_iters
    /\ Returned
    /\ Less[Zero, DecayRatio(self, arg)]
    /\ Less[DecayRatio(self, arg), One]

\* what a scheduler of class c with the fields s returns for the iteration t,
\* when the call completes
Outcome(c, s, t) ==
    CASE c = "CosineScheduler" -> CosineScheduler_call(s, t)
      [] c = "ExponentialScheduler" -> ExponentialScheduler_call(s, t)
      [] c = "ConstantLR" -> ConstantLR_call(s, t)
      [] c = "StepLR" -> StepLR_call(s, t)
      [] c = "MultiStepLR" -> MultiStepLR_call(s, t)
      [] c = "LinearLR" -> LinearLR_call(s, t)
      [] c = "PolynomialLR" -> PolynomialLR_call(s, t)
      [] c = "CyclicLR" -> CyclicLR_call(s, t)
      [] c = "OneCycleLR" -> OneCycleLR_call(s, t)
      [] c = "CosineAnnealingWarmRestarts" ->
            IF s.warmup_steps = 0 THEN Raise("ZeroDivisionError")
            ELSE Return(WR_Formula(s, t % s.warmup_steps, s.warmup_steps))

\* C4: calls leave every field of the scheduler as __init__ stored it, and the
\* outcome of a call is the one outcome the fields and the iteration determine,
\* whatever was called before.
C4_NoMemory ==
    cls # "none" =>
        /\ self = built
        /\ (pc = "idle" /\ result.kind # "none") => result = Outcome(cls, built, arg)

C4_Witness ==
    /\ IsWR
    /\ self.T_mult = 2
    /\ Returned
    /\ again
    /\ arg > self.warmup_steps

\* C5, as claimed, for the configurations with warmup_iters < max_iters:
\* rate(0) = 0; rate(t) = max_lr * t / warmup_iters for t < warmup_iters;
\* rate(warmup_iters) = max_lr; rate(max_iters) = min_lr; rate(t) = min_lr for
\* t > max_iters.
C5_AsClaimed ==
    (IsCosine /\ self.warmup_iters < self.max_iters /\ Returned) =>
        /\ (arg = 0) => result.value = Zero
        /\ (arg < self.warmup_iters) =>
              result.value = FDiv[FMul[self.max_lr, FromInt[arg]],
                                  FromInt[self.warmup_iters]]
        /\ (arg = self.warmup_iters) => result.value = self.max_lr
        /\ (arg = self.max_iters) => result.value = self.min_lr
        /\ (arg > self.max_iters) => result.value = self.min_lr

\* C5, amended: the same, with rate(0) = 0 only when there is a warmup
\* (warmup_iters >= 1), and with rate(warmup_iters) = min_lr + (max_lr - min_lr)
\* as the floats compute it, which is within 2^-51 * max(|max_lr|, |min_lr|) of
\* max_lr.
C5_CosineBoundaryValues ==
    (IsCosine /\ self.warmup_iters < self.max_iters /\ Returned) =>
        /\ (arg = 0 /\ self.warmup_iters >= 1) => result.value = Zero
        /\ (arg < self.warmup_iters) =>
              result.value = FDiv[FMul[self.max_lr, FromInt[arg]],
                                  FromInt[self.warmup_iters]]
        /\ (arg = self.warmup_iters) =>
              /\ result.value = Top(self)
              /\ Within(result.value, self.max_lr, TopTol(self))
        /\ (arg = self.max_iters) => result.value = self.min_lr
        /\ (arg > self.max_iters) => result.value = self.min_lr

C5_Witness ==
    /\ IsCosine
    /\ self.warmup_iters >= 1
    /\ self.warmup_iters < self.max_iters
    /\ arg = self.warmup_iters
    /\ Returned
    /\ result.value # self.max_lr
    /\ Within(result.value, self.max_lr, TopTol(self))

\* C6, as claimed: for T_mult >= 1, CosineAnnealingWarmRestarts returns max_lr
\* where iteration mod warmup_steps = 0, its rate is a function of
\* iteration mod warmup_steps, and t and t + warmup_steps have the same outcome.
C6_AsClaimed ==
    (IsWR /\ self.T_mult >= 1 /\ Returned) =>
        /\ (arg % self.warmup_steps = 0) => result.value = self.max_lr
        /\ result.value =
              WR_Formula(self, arg % self.warmup_steps, self.warmup_steps)
        /\ (arg >= self.warmup_steps) =>
              result = Outcome(cls, self, arg - self.warmup_steps)

\* C6, amended: the same, with the rate where iteration mod warmup_steps = 0
\* being min_lr + (max_lr - min_lr) as the floats compute it, which is within
\* 2^-51 * max(|max_lr|, |min_lr|) of max_lr.
C6_WarmRestartsPeriodic ==
    (IsWR /\ self.T_mult >= 1 /\ Returned) =>
        /\ (arg % self.warmup_steps = 0) =>
              /\ result.value = Top(self)
              /\ Within(result.value, self.max_lr, TopTol(self))
        /\ result.value =
              WR_Formula(self, arg % self.warmup_steps, self.warmup_steps)
        /\ (arg >= self.warmup_steps) =>
              result = Outcome(cls, self, arg - self.warmup_steps)

C6_Witness ==
    /\ IsWR
    /\ self.T_mult = 2
    /\ Returned
    /\ arg = 2 * self.warmup_steps
    /\ result.value # self.max_lr
    /\ Within(result.value, self.max_lr, TopTol(self))
    /\ result = Outcome(cls, self, arg - self.warmup_steps)

IsCyclic == cls = "CyclicLR"

\* the rate of the CyclicLR self one period (2 * max_iters) before arg
OnePeriodBefore == CyclicLR_call(self, arg - 2 * self.max_iters).value

\* C7, as claimed: for max_iters >= 1 and min_lr <= max_lr, CyclicLR returns
\* max_lr at the odd multiples of max_iters, min_lr at the multiples of
\* 2 * max_iters, a rate in [min_lr, max_lr] everywhere, and the same rate at t
\* and t + 2 * max_iters.
C7_AsClaimed ==
    (IsCyclic /\ self.max_iters >= 1 /\ Leq[self.min_lr, self.max_lr]
       /\ result.kind # "none") =>
        /\ result.kind = "return"
        /\ (arg % (2 * self.max_iters) = self.max_iters) =>
              result.value = self.max_lr
        /\ (arg % (2 * self.max_iters) = 0) => result.value = self.min_lr
        /\ Leq[self.min_lr, result.value]
        /\ Leq[result.value, self.max_lr]
        /\ (arg >= 2 * self.max_iters) => result.value = OnePeriodBefore

\* C7, amended: for max_iters >= 1 and min_lr <= max_lr, CyclicLR returns
\* min_lr + (max_lr - min_lr) as the floats compute it, which is within
\* tol = 2^-51 * max(|max_lr|, |min_lr|) of max_lr, at the odd multiples of
\* max_iters; exactly min_lr at the multiples of 2 * max_iters; a rate in
\* [min_lr, max_lr + tol] everywhere; and at t + 2 * max_iters the rate of t
\* exactly when t is a multiple of max_iters, and in general within
\* 2^-45 * (1 + t / max_iters) * max(|max_lr|, |min_lr|) of it.
C7_CyclicTriangle ==
    (IsCyclic /\ self.max_iters >= 1 /\ Leq[self.min_lr, self.max_lr]
       /\ result.kind # "none") =>
        /\ result.kind = "return"
        /\ (arg % (2 * self.max_iters) = self.max_iters) =>
              /\ result.value = Top(self)
              /\ Within(result.value, self.max_lr, TopTol(self))
        /\ (arg % (2 * self.max_iters) = 0) => result.value = self.min_lr
        /\ Leq[self.min_lr, result.value]
        /\ Leq[result.value, XAdd[self.max_lr, TopTol(self)]]
        /\ (arg >= 2 * self.max_iters) =>
              /\ (arg % self.max_iters = 0) => result.value = OnePeriodBefore
              /\ Within(XMul[XOfInt[self.max_iters], result.value],
                        XMul[XOfInt[self.max_iters], OnePeriodBefore],
                        XMul[XMul[TwoTo(-45), XOfInt[arg - self.max_iters]],
                             Scale(self)])

C7_Witness ==
    /\ IsCyclic
    /\ self.max_iters >= 1
    /\ Less[self.min_lr, self.max_lr]
    /\ Returned
    /\ arg = 3 * self.max_iters
    /\ result.value # self.max_lr
    /\ Within(result.value, self.max_lr, TopTol(self))
    /\ result.value = OnePeriodBefore

IsOneCycle == cls = "OneCycleLR"

\* the iteration t is pct_start * max_iters, as the floats compute the product
AtJunction(s, t) == FromInt[t] = OneCycle_junction(s)

\* the configuration of the example: pct_start = 0.3, max_iters = 100, the rates
\* the defaults
OneCycleExample ==
    [max_lr |-> F[3, 10000], min_lr |-> F[3, 100000], max_iters |-> 100,
     pct_start |-> F[3, 10]]

OneCycleExampleJunction == AtJunction(OneCycleExample, 30)

\* the rates of the example at its junction and at its ends: at 30 the rising
\* formula is the one returned
OneCycleExampleRates ==
    /\ Leq[F[30, 100], OneCycleExample.pct_start]
    /\ OneCycleLR_call(OneCycleExample, 30) = Return(OneCycle_rising(OneCycleExample, 30))
    /\ Within(OneCycle_rising(OneCycleExample, 30), OneCycleExample.max_lr,
              TopTol(OneCycleExample))
    /\ OneCycle_falling(OneCycleExample, 30) = OneCycleExample.max_lr
    /\ OneCycleLR_call(OneCycleExample, 0) = Return(OneCycleExample.min_lr)
    /\ Within(XMul[XSub[One, OneCycleExample.pct_start],
                   OneCycleLR_call(OneCycleExample, 100).value],
              XMul[XSub[One, OneCycleExample.pct_start], OneCycleExample.min_lr],
              XMul[TwoTo(-49), Scale(OneCycleExample)])

\* a configuration whose junction is an integer only after rounding:
\* pct_start = 0.8181818181818181 (the double below 9 / 11), max_iters = 11;
\* the product pct_start * max_iters rounds to 9.0
OneCycleRounded ==
    [max_lr |-> F[9, 10], min_lr |-> F[3, 10], max_iters |-> 11,
     pct_start |-> [s |-> 1, m |-> <<14894, 17873, 14894, 209>>, e |-> -53]]

\* there the junction is 9, but 9 / 11 rounds above pct_start: the falling
\* formula is the one returned, and it gives max_lr
OneCycleRoundedFalls ==
    /\ AtJunction(OneCycleRounded, 9)
    /\ Less[OneCycleRounded.pct_start, F[9, 11]]
    /\ OneCycleLR_call(OneCycleRounded, 9) = Return(OneCycle_falling(OneCycleRounded, 9))
    /\ OneCycle_falling(OneCycleRounded, 9) = OneCycleRounded.max_lr
    /\ OneCycle_rising(OneCycleRounded, 9) = Top(OneCycleRounded)
    /\ OneCycle_rising(OneCycleRounded, 9) # OneCycleRounded.max_lr

\* C8, as claimed: for 0 < pct_start < 1 and max_iters >= 1, at iteration =
\* pct_start * max_iters the rising and the falling formula both give max_lr
\* and max_lr is returned; rate(0) = min_lr; rate(max_iters) = min_lr; the rising
\* formula is the one returned exactly when iteration / max_iters <= pct_start.
\* The example (pct_start 0.3, max_iters 100) has its junction at 30.
C8_AsClaimed ==
    /\ (IsOneCycle /\ self.max_iters >= 1 /\ Less[Zero, self.pct_start]
          /\ Less[self.pct_start, One] /\ result.kind # "none") =>
        /\ result.kind = "return"
        /\ AtJunction(self, arg) =>
              /\ OneCycle_rising(self, arg) = self.max_lr
              /\ OneCycle_falling(self, arg) = self.max_lr
              /\ result.value = self.max_lr
        /\ (arg = 0) => result.value = self.min_lr
        /\ (arg = self.max_iters) => result.value = self.min_lr
        /\ result.value =
              IF Leq[F[arg, self.max_iters], self.pct_start]
              THEN OneCycle_rising(self, arg)
              ELSE OneCycle_falling(self, arg)
    /\ OneCycleExampleJunction

\* C8, amended: for 0 < pct_start < 1 and max_iters >= 1, at iteration =
\* pct_start * max_iters (the float product) the falling formula gives max_lr and
\* the rising formula gives min_lr + (max_lr - min_lr) as the floats compute it;
\* the rate returned there is the one or the other, as the branch test decides,
\* and in either case within 2^-51 * max(|max_lr|, |min_lr|) of max_lr;
\* rate(0) = min_lr exactly; rate(max_iters) is within
\* 2^-49 * max(|max_lr|, |min_lr|) / (1 - pct_start) of min_lr; the rising
\* formula is the one returned exactly when iteration / max_iters <= pct_start.
\* The example (pct_start 0.3, max_iters 100) has its junction at 30 and returns
\* the rising formula there; with pct_start = 0.8181818181818181 and
\* max_iters = 11 the junction is 9 and the falling formula is returned.
C8_OneCycleJunction ==
    /\ (IsOneCycle /\ self.max_iters >= 1 /\ Less[Zero, self.pct_start]
          /\ Less[self.pct_start, One] /\ result.kind # "none") =>
        /\ result.kind = "return"
        /\ AtJunction(self, arg) =>
              /\ OneCycle_rising(self, arg) = Top(self)
              /\ Within(OneCycle_rising(self, arg), self.max_lr, TopTol(self))
              /\ OneCycle_falling(self, arg) = self.max_lr
              /\ \/ result.value = OneCycle_rising(self, arg)
                 \/ result.value = OneCycle_falling(self, arg)
              /\ Within(result.value, self.max_lr, TopTol(self))
        /\ (arg = 0) => result.value = self.min_lr
        /\ (arg = self.max_iters) =>
              Within(XMul[XSub[One, self.pct_start], result.value],
                     XMul[XSub[One, self.pct_start], self.min_lr],
                     XMul[TwoTo(-49), Scale(self)])
        /\ result.value =
              IF Leq[F[arg, self.max_iters], self.pct_start]
              THEN OneCycle_rising(self, arg)
              ELSE OneCycle_falling(self, arg)
    /\ OneCycleExampleJunction
    /\ OneCycleExampleRates
    /\ OneCycleRoundedFalls

C8_Witness ==
    /\ IsOneCycle
    /\ self.max_iters >= 1
    /\ Less[Zero, self.pct_start]
    /\ Less[self.pct_start, One]
    /\ AtJunction(self, arg)
    /\ Returned
    /\ result.value # self.max_lr
    /\ Within(result.value, self.max_lr, TopTol(self))
    /\ OneCycle_falling(self, arg) = self.max_lr

IsMultiStep == cls = "MultiStepLR"

\* the number of entries m of the milestone list with m <= t
EntriesUpTo(ms, t) == Cardinality({i \in DOMAIN ms : ms[i] <= t})

\* the configuration of the example: milestones [10, 30], gamma 0.1, max_lr 1.0
MultiStepExample ==
    [max_lr |-> One, max_iters |-> DefaultMaxIters, gamma |-> F[1, 10],
     milestones |-> <<10, 30>>]

\* in the example k is 0 at 5, 1 at 10 and at 29, 2 at 30
MultiStepExampleCounts ==
    /\ MultiStepLR_call(MultiStepExample, 5) = TimesPow[One, FPow[F[1, 10], FromInt[0]]]
    /\ MultiStepLR_call(MultiStepExample, 10) = TimesPow[One, FPow[F[1, 10], FromInt[1]]]
    /\ MultiStepLR_call(MultiStepExample, 29) = TimesPow[One, FPow[F[1, 10], FromInt[1]]]
    /\ MultiStepLR_call(MultiStepExample, 30) = TimesPow[One, FPow[F[1, 10], FromInt[2]]]
    /\ MilestonesPassed(MultiStepExample.milestones, 5) = 0
    /\ MilestonesPassed(MultiStepExample.milestones, 10) = 1
    /\ MilestonesPassed(MultiStepExample.milestones, 29) = 1
    /\ MilestonesPassed(MultiStepExample.milestones, 30) = 2

\* C9: MultiStepLR returns max_lr * gamma ** k with k the number of milestone
\* entries m <= iteration; k does not decrease from one iteration to the next,
\* grows where the iteration is a milestone, and stays, with the rate, where it
\* is none.  In the example k is 0 at 5, 1 at 10 and at 29, 2 at 30.
C9_MultiStepCount ==
    /\ (IsMultiStep /\ result.kind # "none") =>
        /\ result =
              TimesPow[self.max_lr,
                       FPow[self.gamma, FromInt[EntriesUpTo(self.milestones, arg)]]]
        /\ (arg >= 1) =>
              /\ EntriesUpTo(self.milestones, arg - 1)
                    <= EntriesUpTo(self.milestones, arg)
              /\ IF \E i \in DOMAIN self.milestones : self.milestones[i] = arg
                 THEN EntriesUpTo(self.milestones, arg - 1)
                        < EntriesUpTo(self.milestones, arg)
                 ELSE /\ EntriesUpTo(self.milestones, arg - 1)
                           = EntriesUpTo(self.milestones, arg)
                      /\ result = MultiStepLR_call(self, arg - 1)
    /\ MultiStepExampleCounts

C9_Witness ==
    /\ IsMultiStep
    /\ Len(self.milestones) = 2
    /\ arg = self.milestones[1]
    /\ arg < self.milestones[2]
    /\ arg >= 1
    /\ Returned
    /\ result.value = FMul[self.max_lr, self.gamma]
    /\ MultiStepLR_call(self, arg - 1) = Return(self.max_lr)

IsStep == cls = "StepLR"

\* the rate of the StepLR self at the iteration before arg
OneBefore == StepLR_call(self, arg - 1).value

\* C10, as claimed: for max_iters >= 1, StepLR returns max_lr * gamma ** k at
\* every iteration of [k * max_iters, (k + 1) * max_iters); at a multiple of
\* max_iters the rate is gamma times the rate of the iteration before, and at any
\* other iteration it is the rate of the iteration before.
C10_AsClaimed ==
    (IsStep /\ self.max_iters >= 1 /\ result.kind # "none") =>
        /\ result.kind = "return"
        /\ \A k \in Iterations :
              (k * self.max_iters <= arg /\ arg < (k + 1) * self.max_iters) =>
                  result.value = FMul[self.max_lr, FPow[self.gamma, FromInt[k]].value]
        /\ (arg >= 1) =>
              IF arg % self.max_iters = 0
              THEN result.value = FMul[self.gamma, OneBefore]
              ELSE result.value = OneBefore

\* a normal double: not 0, and its magnitude has all 53 bits
IsNormal(x) == x.s # 0 /\ BitLen[x.m] = MantBits

\* gamma ** k, gamma ** (k + 1) and the rates of the StepLR s at the iterations
\* t - 1 and t are normal (nothing has underflowed)
StepInNormalRange(s, t) ==
    /\ IsNormal(FPow[s.gamma, FromInt[StepIndex(s, t - 1)]].value)
    /\ IsNormal(FPow[s.gamma, FromInt[StepIndex(s, t)]].value)
    /\ IsNormal(StepLR_call(s, t - 1).value)
    /\ IsNormal(StepLR_call(s, t).value)

\* outside the normal range: StepLR(1.0, 1, 0.1) returns 1e-323, which is
\* 2 * 2^-1074, at 323 and 0.0 at 324, where the bound does not hold; and
\* StepLR(1.0, 1, 10.0) returns 1e308 at 308 and raises OverflowError at 309
StepRangeExamples ==
    /\ StepLR_call([max_lr |-> One, max_iters |-> 1, gamma |-> F[1, 10]], 323)
          = Return([s |-> 1, m |-> <<2>>, e |-> MinExp])
    /\ StepLR_call([max_lr |-> One, max_iters |-> 1, gamma |-> F[1, 10]], 324)
          = Return(Zero)
    /\ ~StepInNormalRange([max_lr |-> One, max_iters |-> 1, gamma |-> F[1, 10]], 324)
    /\ StepLR_call([max_lr |-> One, max_iters |-> 1, gamma |-> FromInt[10]], 308).kind
          = "return"
    /\ StepLR_call([max_lr |-> One, max_iters |-> 1, gamma |-> FromInt[10]], 309)
          = Raise("OverflowError")

\* C10, amended: for max_iters >= 1, the outcome of StepLR at every iteration
\* of [k * max_iters, (k + 1) * max_iters) is that of max_lr * gamma ** k, a rate
\* when |gamma| <= 1 (a larger gamma can overflow); at a multiple of max_iters
\* the rate is within 2^-50 of itself of gamma times the rate of the iteration
\* before, as long as the powers of gamma and the rates on both sides are
\* normal doubles (the two are rounded differently, and below the normal range
\* more coarsely); at any other iteration it is the rate of the iteration
\* before.
C10_StepIntervals ==
    /\ (IsStep /\ self.max_iters >= 1 /\ result.kind # "none") =>
        /\ Leq[XAbs[self.gamma], One] => result.kind = "return"
        /\ \A k \in Iterations :
              (k * self.max_iters <= arg /\ arg < (k + 1) * self.max_iters) =>
                  result = TimesPow[self.max_lr, FPow[self.gamma, FromInt[k]]]
        /\ (arg >= 1) =>
              IF arg % self.max_iters = 0
              THEN StepInNormalRange(self, arg) =>
                       Within(result.value, XMul[self.gamma, OneBefore],
                              XMul[TwoTo(-50), XAbs[result.value]])
              ELSE result = StepLR_call(self, arg - 1)
    /\ StepRangeExamples

C10_Witness ==
    /\ IsStep
    /\ self.max_iters >= 1
    /\ arg >= 1
    /\ arg % self.max_iters = 0
    /\ Returned
    /\ StepInNormalRange(self, arg)
    /\ result.value # FMul[self.gamma, OneBefore]
    /\ Within(result.value, XMul[self.gamma, OneBefore],
              XMul[TwoTo(-50), XAbs[result.value]])

=============================================================================
